---- MODULE Spec2Model ----
(***************************************************************************)
(* State-machine model of core/audio_engine.py (class AudioEngine): the    *)
(* engine fields, the host audio streams it opens, and one action per      *)
(* public method and per audio callback.                                   *)
(*                                                                         *)
(* Sample values are integers in hundredths of full scale; a delivered     *)
(* batch is a constant-valued run [v, n] (n frames of value v); buffers    *)
(* are sequences of such runs.  A click sample is identified by the        *)
(* frequency and the rate it was generated for; its i-th sample is the     *)
(* pair (click, i).                                                        *)
(***************************************************************************)
EXTENDS Integers, Sequences, FiniteSets, TLC

\* ---- program constants -------------------------------------------------
SAMPLE_RATE == 44100
CHANNELS == 1
BLOCKSIZE == 1024
SCOPE_BUFFER_SIZE == 2048
OUT_CHANNELS == 2
CLICK_MS == 12
FREQ_NORMAL == 1500
FREQ_ACCENT == 2000
FREQ_COUNTIN == 1000

\* Python None for a stream handle, and "attribute never assigned".
None == 0
Unset == -1
\* Python None for a device index (0 is a valid index).
NoDevice == -1

\* ---- bounds --------------------------------------------------------------
MaxStreams == 2
MaxChunks == 2

\* ---- input sets ----------------------------------------------------------
Rates == {44100, 96000}
AllRates == {44100, 48000, 96000}
InputVals == {10, 50}
MonFrames == {512, 2048, 4096}
StreamIds == 1..MaxStreams
InputIds == {NoDevice, 0}
MonitorIds == {NoDevice, 1, 2}
OutputIds == {NoDevice, 1}
\* sd.query_devices(None, 'output') answers for the host's default output.
DefaultOutput == 0

\* The host's device table (sd.query_devices): index 2 is not present.
DeviceTable ==
    [d \in {0, 1} |->
        IF d = 0
        THEN [default_samplerate |-> 48000, max_input_channels |-> 2,
              max_output_channels |-> 2]
        ELSE [default_samplerate |-> 44100, max_input_channels |-> 1,
              max_output_channels |-> 0]]

VARIABLES
    sample_rate, channels, is_recording, recording_data,
    input_device, output_device, active_sr, active_channels,
    monitoring_stream, current_level, is_monitoring,
    click_sample, click_accent, click_countin,
    scope_buffer, click_to_play, click_ptr, stream,
    hw,        \* host streams currently open: [id, kind, started]
    events,    \* host calls made and exception raised by the most recent step
    outdata,   \* output block written by the most recent duplex callback
    click_out, \* segments of the armed click written since it was armed
    delivered, \* input blocks the host delivered to the duplex callback while
               \* the flag was set, since start_recording last set it
    returned,  \* value returned by stop_recording, when the most recent step
               \* was a stop_recording that returned
    scope_view, \* _scope_buffer is a view of the input buffer the host delivered
    snapshot,  \* the array get_scope_data last handed to the interface
    cb,        \* the monitoring callback in flight, between its two scope writes
    catalog,   \* the devices the host enumerates now (sd.query_devices)
    db,        \* the audio_config setting as save_config last stored it
    result, \* value returned by the most recent step, when it was a query
    wavfile, \* the WAV file on disk
    click_lock, \* the thread that holds _click_lock
    ui, \* play_click on the interface thread: position and locals
    audio, \* duplex_callback on the audio thread: position and locals
    cursor_of, \* history: the buffer _click_ptr was last written for
    stream_lock   \* the thread that holds _stream_lock

vars == <<sample_rate, channels, is_recording, recording_data,
          input_device, output_device, active_sr, active_channels,
          monitoring_stream, current_level, is_monitoring,
          click_sample, click_accent, click_countin,
          scope_buffer, click_to_play, click_ptr, stream,
          hw, events, outdata, click_out, delivered, returned,
          scope_view, snapshot, cb, catalog, db, result, wavfile, click_lock, ui, audio, cursor_of, stream_lock>>

\* ---- the host's devices ---------------------------------------------------
\* sd.query_hostapis(): the names of the host APIs, by index from 0.
HostApis == <<"MME", "Windows WASAPI", "ASIO", "Windows WDM-KS">>

Dev(name, hostapi, ins, outs, sr, bad) ==
    [name |-> name, hostapi |-> hostapi, max_input_channels |-> ins,
     max_output_channels |-> outs, default_samplerate |-> sr, bad |-> bad]

\* bad: the host fails to describe this device when it is enumerated.
UmcAsio == Dev("UMC204HD", 2, 2, 2, 48000, FALSE)
Microphone == Dev("Microphone", 0, 1, 0, 44100, FALSE)
PrimaryDriver == Dev("Primary Sound Capture Driver", 0, 2, 0, 44100, FALSE)
FocusriteWasapi == Dev("Focusrite USB ASIO", 1, 2, 2, 48000, FALSE)
BrokenDevice == Dev("Webcam", 0, 1, 0, 44100, TRUE)

\* The devices behind DeviceTable, in its order.
DefaultCatalog == <<UmcAsio, Microphone>>

Catalogs ==
    {DefaultCatalog,
     <<Microphone, UmcAsio>>,
     <<PrimaryDriver, Microphone, UmcAsio>>,
     <<Microphone, FocusriteWasapi, Microphone>>,
     <<UmcAsio, BrokenDevice>>,
     <<>>}

\* The empty string stands for a name stored as None.
NoDb == [present |-> FALSE, input_device_name |-> "", output_device_name |-> "",
         sample_rate |-> 0, channels |-> 0]

NoFile == [present |-> FALSE, nchannels |-> 0, framerate |-> 0, nframes |-> 0,
           pcm |-> <<>>]

NoResult == [op |-> "none", val |-> <<>>]

\* ---- helpers -------------------------------------------------------------
Min(a, b) == IF a < b THEN a ELSE b

MinOf(S) == CHOOSE x \in S : \A y \in S : x <= y

NoClick == [freq |-> 0, sr |-> 0, n |-> 0]

NoCall == [pc |-> "idle", sample |-> NoClick]

NoBlock == [pc |-> "idle", id |-> 0, frames |-> 0, click |-> NoClick, ptr |-> 0,
            to_copy |-> 0]

NoReturn == [called |-> FALSE, audio |-> <<>>]

\* live: the array is the one _scope_buffer still refers to.
\* view: the array is a view of the host's input buffer.
NoSnapshot == [held |-> FALSE, live |-> FALSE, view |-> FALSE, data |-> <<>>]

\* before: the scope buffer as the callback found it.
NoCallback == [pc |-> "idle", v |-> 0, frames |-> 0, before |-> <<>>]

\* outdata.fill(0): per output channel, n leading samples click[lo .. lo+n)
\* and zeros after them; n = 0 is a silent block.
Silence == [c \in 0..(OUT_CHANNELS - 1) |-> [click |-> NoClick, lo |-> 0, n |-> 0]]

\* int(self._sample_rate * duration) samples, generated for rate sr.
GenerateProfessionalClick(freq, sr) ==
    [freq |-> freq, sr |-> sr, n |-> (sr * CLICK_MS) \div 1000]

Ev(e, id, sr, ch, res) == [e |-> e, id |-> id, sr |-> sr, ch |-> ch, res |-> res]

Log(S, ev) == [S EXCEPT !.events = Append(@, ev)]

\* The step ended by raising exception x to its caller.
Raised(S, x) ==
    /\ S.events # <<>>
    /\ S.events[Len(S.events)].e = "raise"
    /\ S.events[Len(S.events)].res = x

Range(q) == {q[i] : i \in 1..Len(q)}

AppendUnique(q, x) == IF x \in Range(q) THEN q ELSE Append(q, x)

\* Sample buffers are sequences of runs [v, n]: n samples of value v.
RECURSIVE SumN(_)
SumN(q) == IF q = <<>> THEN 0 ELSE Head(q).n + SumN(Tail(q))

RECURSIVE TakeFirst(_, _)
TakeFirst(buf, k) ==
    IF k = 0 \/ buf = <<>> THEN <<>>
    ELSE IF Head(buf).n <= k
    THEN <<Head(buf)>> \o TakeFirst(Tail(buf), k - Head(buf).n)
    ELSE <<[v |-> Head(buf).v, n |-> k]>>

RECURSIVE DropFirst(_, _)
DropFirst(buf, k) ==
    IF k = 0 \/ buf = <<>> THEN buf
    ELSE IF Head(buf).n <= k THEN DropFirst(Tail(buf), k - Head(buf).n)
    ELSE <<[v |-> Head(buf).v, n |-> Head(buf).n - k]>> \o Tail(buf)

AppendRun(buf, v, k) ==
    IF buf # <<>> /\ buf[Len(buf)].v = v
    THEN [buf EXCEPT ![Len(buf)] = [v |-> v, n |-> @.n + k]]
    ELSE Append(buf, [v |-> v, n |-> k])

\* The engine state as one record, so that methods compose.
Cur ==
    [sample_rate |-> sample_rate, channels |-> channels,
     is_recording |-> is_recording, recording_data |-> recording_data,
     input_device |-> input_device, output_device |-> output_device,
     active_sr |-> active_sr, active_channels |-> active_channels,
     monitoring_stream |-> monitoring_stream, current_level |-> current_level,
     is_monitoring |-> is_monitoring,
     click_sample |-> click_sample, click_accent |-> click_accent,
     click_countin |-> click_countin,
     scope_buffer |-> scope_buffer, click_to_play |-> click_to_play,
     click_ptr |-> click_ptr, stream |-> stream,
     hw |-> hw, events |-> <<>>,
     outdata |-> Silence, click_out |-> click_out,
     delivered |-> delivered, returned |-> NoReturn,
     scope_view |-> scope_view,
     snapshot |-> snapshot,
     cb |-> cb,
     catalog |-> catalog,
     db |-> db,
     result |-> NoResult,
     wavfile |-> wavfile,
     click_lock |-> click_lock,
     ui |-> ui,
     audio |-> audio,
     cursor_of |-> cursor_of,
     stream_lock |-> stream_lock]

\* Each variable takes its value from the record a method returns.
Commit(S) ==
    \E T \in {S} :
        /\ sample_rate' = T.sample_rate
        /\ channels' = T.channels
        /\ is_recording' = T.is_recording
        /\ recording_data' = T.recording_data
        /\ input_device' = T.input_device
        /\ output_device' = T.output_device
        /\ active_sr' = T.active_sr
        /\ active_channels' = T.active_channels
        /\ monitoring_stream' = T.monitoring_stream
        /\ current_level' = T.current_level
        /\ is_monitoring' = T.is_monitoring
        /\ click_sample' = T.click_sample
        /\ click_accent' = T.click_accent
        /\ click_countin' = T.click_countin
        /\ scope_buffer' = T.scope_buffer
        /\ click_to_play' = T.click_to_play
        /\ click_ptr' = T.click_ptr
        /\ stream' = T.stream
        /\ hw' = T.hw
        /\ events' = T.events
        /\ outdata' = T.outdata
        /\ click_out' = T.click_out
        /\ delivered' = T.delivered
        /\ returned' = T.returned
        /\ scope_view' = T.scope_view
        /\ snapshot' = T.snapshot
        /\ cb' = T.cb
        /\ catalog' = T.catalog
        /\ db' = T.db
        /\ result' = T.result
        /\ wavfile' = T.wavfile
        /\ click_lock' = T.click_lock
        /\ ui' = T.ui
        /\ audio' = T.audio
        /\ cursor_of' = T.cursor_of
        /\ stream_lock' = T.stream_lock

\* ---- host stream table ---------------------------------------------------
HwClose(h, id) == {s \in h : s.id # id}

HwOpen(h, id, kind, started) ==
    h \cup {[id |-> id, kind |-> kind, started |-> started]}

FreeIds(h) == StreamIds \ {s.id : s \in h}

\* ---- _regenerate_clicks --------------------------------------------------
RegenerateClicks(S) ==
    LET sr == IF S.active_sr # 0 THEN S.active_sr ELSE S.sample_rate
    IN [S EXCEPT !.click_sample = GenerateProfessionalClick(FREQ_NORMAL, sr),
                 !.click_accent = GenerateProfessionalClick(FREQ_ACCENT, sr),
                 !.click_countin = GenerateProfessionalClick(FREQ_COUNTIN, sr)]

\* ---- load_config ---------------------------------------------------------
NoConfig == [present |-> FALSE, sample_rate |-> 0, channels |-> 0,
             in_dev |-> NoDevice, out_dev |-> NoDevice]

Configs ==
    {NoConfig} \cup
    [present : {TRUE}, sample_rate : Rates, channels : {CHANNELS},
     in_dev : InputIds, out_dev : OutputIds]

LoadConfig(S, cfg) ==
    IF ~cfg.present THEN S
    ELSE RegenerateClicks(
           [S EXCEPT !.sample_rate = cfg.sample_rate,
                     !.active_sr = cfg.sample_rate,
                     !.active_channels = cfg.channels,
                     !.channels = cfg.channels,
                     !.input_device = IF cfg.in_dev # NoDevice THEN cfg.in_dev ELSE @,
                     !.output_device = IF cfg.out_dev # NoDevice THEN cfg.out_dev ELSE @])

\* ---- __init__ ------------------------------------------------------------
Constructed ==
    [sample_rate |-> SAMPLE_RATE, channels |-> CHANNELS,
     is_recording |-> FALSE, recording_data |-> <<>>,
     input_device |-> NoDevice, output_device |-> NoDevice,
     active_sr |-> SAMPLE_RATE, active_channels |-> CHANNELS,
     monitoring_stream |-> None, current_level |-> 0,
     is_monitoring |-> FALSE,
     click_sample |-> GenerateProfessionalClick(FREQ_NORMAL, SAMPLE_RATE),
     click_accent |-> GenerateProfessionalClick(FREQ_ACCENT, SAMPLE_RATE),
     click_countin |-> GenerateProfessionalClick(FREQ_COUNTIN, SAMPLE_RATE),
     scope_buffer |-> <<[v |-> 0, n |-> SCOPE_BUFFER_SIZE]>>,
     click_to_play |-> NoClick, click_ptr |-> 0, stream |-> Unset,
     hw |-> {}, events |-> <<>>,
     outdata |-> Silence, click_out |-> <<>>,
     delivered |-> <<>>, returned |-> NoReturn,
     scope_view |-> FALSE,
     snapshot |-> NoSnapshot,
     cb |-> NoCallback,
     catalog |-> DefaultCatalog,
     db |-> NoDb,
     result |-> NoResult,
     wavfile |-> NoFile,
     click_lock |-> "free",
     ui |-> NoCall,
     audio |-> NoBlock,
     cursor_of |-> NoClick,
     stream_lock |-> "free"]

\* The variables hold the engine S.
InitFrom(S) ==
    /\ sample_rate = S.sample_rate
    /\ channels = S.channels
    /\ is_recording = S.is_recording
    /\ recording_data = S.recording_data
    /\ input_device = S.input_device
    /\ output_device = S.output_device
    /\ active_sr = S.active_sr
    /\ active_channels = S.active_channels
    /\ monitoring_stream = S.monitoring_stream
    /\ current_level = S.current_level
    /\ is_monitoring = S.is_monitoring
    /\ click_sample = S.click_sample
    /\ click_accent = S.click_accent
    /\ click_countin = S.click_countin
    /\ scope_buffer = S.scope_buffer
    /\ click_to_play = S.click_to_play
    /\ click_ptr = S.click_ptr
    /\ stream = S.stream
    /\ hw = S.hw
    /\ events = S.events
    /\ outdata = S.outdata
    /\ click_out = S.click_out
    /\ delivered = S.delivered
    /\ returned = S.returned
    /\ scope_view = S.scope_view
    /\ snapshot = S.snapshot
    /\ cb = S.cb
    /\ catalog = S.catalog
    /\ db = S.db
    /\ result = S.result
    /\ wavfile = S.wavfile
    /\ click_lock = S.click_lock
    /\ ui = S.ui
    /\ audio = S.audio
    /\ cursor_of = S.cursor_of
    /\ stream_lock = S.stream_lock

Init == \E cfg \in Configs : InitFrom(LoadConfig(Constructed, cfg))

\* ---- get_device_list -----------------------------------------------------
\* k in s, for strings.
Contains(s, k) ==
    \E i \in 1..(Len(s) - Len(k) + 1) : SubSeq(s, i, i + Len(k) - 1) = k

LowerCase == "abcdefghijklmnopqrstuvwxyz"
UpperCase == "ABCDEFGHIJKLMNOPQRSTUVWXYZ"

UpperChar(c) ==
    IF \E i \in 1..Len(LowerCase) : SubSeq(LowerCase, i, i) = c
    THEN LET i == CHOOSE j \in 1..Len(LowerCase) : SubSeq(LowerCase, j, j) = c
         IN SubSeq(UpperCase, i, i)
    ELSE c

RECURSIVE Upper(_)
Upper(s) ==
    IF Len(s) = 0 THEN ""
    ELSE UpperChar(SubSeq(s, 1, 1)) \o Upper(SubSeq(s, 2, Len(s)))

\* f"{dev['name']} ({api_name})"
FullName(name, api_name) == name \o " (" \o api_name \o ")"

Descriptor(i, dev) ==
    LET api_name == HostApis[dev.hostapi + 1]
    IN [index |-> i,
        name |-> dev.name,
        full_name |-> FullName(dev.name, api_name),
        inputs |-> dev.max_input_channels,
        outputs |-> dev.max_output_channels,
        default_sr |-> dev.default_samplerate,
        api |-> api_name,
        api_index |-> dev.hostapi,
        is_asio |-> Contains(Upper(api_name), "ASIO"),
        priority |-> IF \/ Contains(dev.name, "Streaming")
                        \/ Contains(dev.name, "Primary")
                        \/ Contains(dev.name, "Asignador")
                     THEN 0 ELSE 1]

\* Mutant: devices carrying a virtual marker are left out of the list.
DeviceList_HideVirtual(cat, hostOk) ==
    IF ~hostOk \/ \E i \in 1..Len(cat) : cat[i].bad THEN <<>>
    ELSE SelectSeq([i \in 1..Len(cat) |-> Descriptor(i - 1, cat[i])],
                   LAMBDA d : d.priority = 1)

\* sd.query_devices() describes every device when called, and raises when
\* the host fails or one device cannot be described: the list is then empty.
DeviceList(cat, hostOk) ==
    IF ~hostOk \/ \E i \in 1..Len(cat) : cat[i].bad THEN <<>>
    ELSE [i \in 1..Len(cat) |-> Descriptor(i - 1, cat[i])]

\* The log records the query and whether it raised.
LogQuery(S, hostOk) ==
    Log(S, Ev("query_devices", 0, 0, Len(S.catalog),
              IF ~hostOk \/ \E i \in 1..Len(S.catalog) : S.catalog[i].bad
              THEN "raised" ELSE "ok"))

GetDeviceListF(S, hostOk) ==
    [LogQuery(S, hostOk) EXCEPT
        !.result = [op |-> "get_device_list", val |-> DeviceList(S.catalog, hostOk)]]

get_device_list == \E hostOk \in BOOLEAN : Commit(GetDeviceListF(Cur, hostOk))

\* ---- save_config / load_config by name -----------------------------------
\* ---- DeviceScorer.score ---------------------------------------------------
API_PRIORITY ==
    <<[key |-> "ASIO", points |-> 100], [key |-> "Windows WDM-KS", points |-> 80],
      [key |-> "Windows WASAPI", points |-> 60], [key |-> "MME", points |-> 20]>>

PRO_DEVICE_KEYWORDS ==
    <<"ASIO", "UMC", "Focusrite", "Yamaha", "Steinberg", "RME", "Audient">>

\* for api_key, points in API_PRIORITY.items(): if api_key in api: score += points
RECURSIVE ApiPoints(_, _, _)
ApiPoints(api, k, score) ==
    IF k > Len(API_PRIORITY) THEN score
    ELSE ApiPoints(api, k + 1,
                   IF Contains(api, API_PRIORITY[k].key)
                   THEN score + API_PRIORITY[k].points ELSE score)

\* Mutant: the keyword bonus is given once, however many keywords match.
RECURSIVE KeywordPoints_Once(_, _, _)
KeywordPoints_Once(name, k, score) ==
    IF k > Len(PRO_DEVICE_KEYWORDS) THEN score
    ELSE IF Contains(name, PRO_DEVICE_KEYWORDS[k]) THEN score + 30
    ELSE KeywordPoints_Once(name, k + 1, score)

\* for kw in PRO_DEVICE_KEYWORDS: if kw in name: score += 30
RECURSIVE KeywordPoints(_, _, _)
KeywordPoints(name, k, score) ==
    IF k > Len(PRO_DEVICE_KEYWORDS) THEN score
    ELSE KeywordPoints(name, k + 1,
                       IF Contains(name, PRO_DEVICE_KEYWORDS[k])
                       THEN score + 30 ELSE score)

Score(device_info) ==
    LET s1 == ApiPoints(device_info.api, 1, 0)
        s2 == KeywordPoints(device_info.name, 1, s1)
    IN IF device_info.inputs >= 2 THEN s2 + 10 ELSE s2

\* The descriptors the scorer is given.
ScoreNames ==
    {"Microphone", "UMC Microphone", "UMC Focusrite Microphone", "Line In",
     "Yamaha Line In", "Yamaha Steinberg Line In", "ASIO Line In",
     "Primary Sound Capture Driver", "RME Audient Yamaha Steinberg Line In"}

MaxInputs == 2

Descriptors ==
    {Descriptor(0, Dev(n, h, i, 2, 44100, FALSE)) :
        n \in ScoreNames, h \in 0..(Len(HostApis) - 1), i \in 0..MaxInputs}

ScoreF(S, device_info) ==
    [S EXCEPT !.result = [op |-> "score",
                          val |-> [info |-> device_info, score |-> Score(device_info)]]]

score == \E d \in Descriptors : Commit(ScoreF(Cur, d))

\* The loops of save_config and load_config do not break: the last entry
\* that matches wins.
RECURSIVE NameOfIndex(_, _, _)
NameOfIndex(devices, idx, acc) ==
    IF devices = <<>> THEN acc
    ELSE NameOfIndex(Tail(devices), idx,
                     IF Head(devices).index = idx THEN Head(devices).full_name
                     ELSE acc)

RECURSIVE IndexOfName(_, _, _)
IndexOfName(devices, name, acc) ==
    IF devices = <<>> THEN acc
    ELSE IndexOfName(Tail(devices), name,
                     IF Head(devices).full_name = name THEN Head(devices).index
                     ELSE acc)

\* Mutant: the rate the last negotiation settled on is stored.
SaveConfigF_NegotiatedRate(S, hostOk) ==
    LET devices == DeviceList(S.catalog, hostOk)
    IN Log([LogQuery(S, hostOk) EXCEPT !.db =
                [present |-> TRUE,
                 input_device_name |->
                     IF S.input_device = NoDevice THEN ""
                     ELSE NameOfIndex(devices, S.input_device, ""),
                 output_device_name |->
                     IF S.output_device = NoDevice THEN ""
                     ELSE NameOfIndex(devices, S.output_device, ""),
                 sample_rate |-> S.active_sr,
                 channels |-> S.channels]],
           Ev("save_config", 0, S.sample_rate, S.channels, "stored"))

SaveConfigF(S, hostOk) ==
    LET devices == DeviceList(S.catalog, hostOk)
    IN Log([LogQuery(S, hostOk) EXCEPT !.db =
                [present |-> TRUE,
                 input_device_name |->
                     IF S.input_device = NoDevice THEN ""
                     ELSE NameOfIndex(devices, S.input_device, ""),
                 output_device_name |->
                     IF S.output_device = NoDevice THEN ""
                     ELSE NameOfIndex(devices, S.output_device, ""),
                 sample_rate |-> S.sample_rate,
                 channels |-> S.channels]],
           Ev("save_config", 0, S.sample_rate, S.channels, "stored"))

save_config == \E hostOk \in BOOLEAN : Commit(SaveConfigF(Cur, hostOk))

\* Mutant: the stored names are not mapped back; no device is selected.
LoadConfigF_NoMapping(S, hostOk) ==
    IF ~S.db.present THEN S
    ELSE LoadConfig(LogQuery(S, hostOk),
                    [present |-> TRUE,
                     sample_rate |-> S.db.sample_rate,
                     channels |-> S.db.channels,
                     in_dev |-> NoDevice,
                     out_dev |-> NoDevice])

\* load_config with the stored names mapped back to the indices the devices
\* have now.
LoadConfigF(S, hostOk) ==
    IF ~S.db.present THEN S
    ELSE LET devices == DeviceList(S.catalog, hostOk)
         IN LoadConfig(LogQuery(S, hostOk),
                       [present |-> TRUE,
                        sample_rate |-> S.db.sample_rate,
                        channels |-> S.db.channels,
                        in_dev |-> IF S.db.input_device_name = "" THEN NoDevice
                                   ELSE IndexOfName(devices, S.db.input_device_name,
                                                    NoDevice),
                        out_dev |-> IF S.db.output_device_name = "" THEN NoDevice
                                    ELSE IndexOfName(devices, S.db.output_device_name,
                                                     NoDevice)])

\* The application is started again: a new engine is constructed, the
\* streams of the old process are gone; the setting, the files and the host
\* remain.
RestartF(S, hostOk) ==
    Log(LoadConfigF([Constructed EXCEPT !.catalog = S.catalog, !.db = S.db,
                                        !.wavfile = S.wavfile], hostOk),
        Ev("load_config", 0, S.db.sample_rate, 0,
           IF S.db.present THEN "loaded" ELSE "none"))

restart == \E hostOk \in BOOLEAN : Commit(RestartF(Cur, hostOk))

\* The host enumerates its devices anew: indices may change.
replug == \E cat \in Catalogs : Commit([Cur EXCEPT !.catalog = cat])

\* ---- set_devices / set_sample_rate ---------------------------------------
SetDevicesF(S, i, o) == [S EXCEPT !.input_device = i, !.output_device = o]

SetDevicesWith(Ins, Outs) ==
    \E i \in Ins, o \in Outs :
        Commit(SetDevicesF(Cur, i, o))

set_devices == SetDevicesWith(InputIds, OutputIds)

SetSampleRateF(S, sr) ==
    RegenerateClicks([S EXCEPT !.sample_rate = sr, !.active_sr = sr])

set_sample_rate ==
    \E sr \in Rates : Commit(SetSampleRateF(Cur, sr))

\* ---- the host driver ----------------------------------------------------
\* What the driver does with one call's open attempts: the rates it can run,
\* the least channel count it accepts, and whether a refused configuration
\* is refused by the stream constructor or only by stream.start().
\* A driver also decides how the release of a stream goes: it works, or
\* stream.stop() raises (close() is then never reached), or close() raises.
Releases == {"ok", "stop_raises", "close_raises"}

AllDrivers ==
    {d \in [ok : {{}, {48000}, AllRates}, minCh : {1, 2}, sf : BOOLEAN,
            rel : Releases] :
        /\ d.sf => d.minCh = 1 /\ d.ok # AllRates
        /\ d.minCh = 2 => d.ok = AllRates}

\* The drivers that release every stream they are asked to.
Drivers == {d \in AllDrivers : d.rel = "ok"}

\* stream.stop(); stream.close() inside try, as the host sees it.
HwRelease(h, id, rel) ==
    IF rel = "ok" THEN HwClose(h, id)
    ELSE IF rel = "stop_raises" THEN h
    ELSE {IF s.id = id THEN [s EXCEPT !.started = FALSE] ELSE s : s \in h}

LogRelease(S, id, rel) ==
    IF rel = "stop_raises" THEN Log(S, Ev("stop", id, 0, 0, "raised"))
    ELSE Log(Log(S, Ev("stop", id, 0, 0, "ok")),
             Ev("close", id, 0, 0, IF rel = "ok" THEN "ok" ELSE "raised"))

Attempt(h, drv, sr, ch) ==
    IF FreeIds(h) = {} THEN "open_fail"
    ELSE IF sr \in drv.ok /\ ch >= drv.minCh THEN "ok"
    ELSE IF drv.sf THEN "start_fail"
    ELSE "open_fail"

\* ---- play_click ----------------------------------------------------------
\* Mutant: the read cursor is left where the previous click had got to.
PlayClickF_KeepCursor(S, accent, countin, playOk) ==
    LET sample == IF countin THEN S.click_countin
                  ELSE IF accent THEN S.click_accent ELSE S.click_sample
        S1 == Log([S EXCEPT !.click_to_play = sample, !.click_out = <<>>],
                  Ev("arm", IF countin THEN 2 ELSE IF accent THEN 1 ELSE 0,
                     S.click_ptr, 0,
                     IF S.click_to_play = NoClick THEN "fresh" ELSE "replaced"))
    IN IF ~S1.is_recording
       THEN Log(S1, Ev("sd.play", 0, S1.active_sr, sample.sr,
                       IF playOk THEN "ok" ELSE "raised"))
       ELSE S1

\* Mutant: a preview that fails disarms the click.
PlayClickF_DisarmOnFailure(S, accent, countin, playOk) ==
    LET sample == IF countin THEN S.click_countin
                  ELSE IF accent THEN S.click_accent ELSE S.click_sample
        S1 == Log([S EXCEPT !.click_to_play = sample, !.click_ptr = 0, !.cursor_of = sample,
                            !.click_out = <<>>],
                  Ev("arm", IF countin THEN 2 ELSE IF accent THEN 1 ELSE 0,
                     S.click_ptr, 0,
                     IF S.click_to_play = NoClick THEN "fresh" ELSE "replaced"))
    IN IF ~S1.is_recording
       THEN Log(IF playOk THEN S1 ELSE [S1 EXCEPT !.click_to_play = NoClick],
                Ev("sd.play", 0, S1.active_sr, sample.sr,
                   IF playOk THEN "ok" ELSE "raised"))
       ELSE S1

PlayClickF(S, accent, countin, playOk) ==
    LET sample == IF countin THEN S.click_countin
                  ELSE IF accent THEN S.click_accent ELSE S.click_sample
        S1 == Log([S EXCEPT !.click_to_play = sample, !.click_ptr = 0, !.cursor_of = sample,
                            !.click_out = <<>>],
                  Ev("arm", IF countin THEN 2 ELSE IF accent THEN 1 ELSE 0,
                     S.click_ptr, 0,
                     IF S.click_to_play = NoClick THEN "fresh" ELSE "replaced"))
    IN IF ~S1.is_recording
       THEN Log(S1, Ev("sd.play", 0, S1.active_sr, sample.sr,
                       IF playOk THEN "ok" ELSE "raised"))
       ELSE S1

PlayClickWith(Accents, Countins) ==
    \E accent \in Accents, countin \in Countins, playOk \in BOOLEAN :
        Commit(PlayClickF(Cur, accent, countin, playOk))

play_click == PlayClickWith(BOOLEAN, BOOLEAN)

\* ---- stop_monitoring -----------------------------------------------------
\* Mutant: the cooldown is applied whether or not a stream was open.
StopMonitoringF_AlwaysCooldown(S, rel) ==
    LET S1 == Log([S EXCEPT !.is_monitoring = FALSE],
                  Ev("stop_monitoring", S.monitoring_stream, 0, 0, "call"))
        S2 == IF S1.monitoring_stream # None
              THEN LogRelease(
                     [S1 EXCEPT !.hw = HwRelease(@, S1.monitoring_stream, rel),
                                !.monitoring_stream = None],
                     S1.monitoring_stream, rel)
              ELSE S1
    IN [Log(S2, Ev("sleep", 0, 0, 0, "150")) EXCEPT !.current_level = 0]

\* Mutant: the handle is cleared and the cooldown applied after the close,
\* inside the try, so that neither happens when the release raises.
StopMonitoringF_NoFinally(S, rel) ==
    LET S1 == Log([S EXCEPT !.is_monitoring = FALSE],
                  Ev("stop_monitoring", S.monitoring_stream, 0, 0, "call"))
        S2 == IF S1.monitoring_stream # None
              THEN IF rel = "ok"
                   THEN Log(Log(LogRelease(
                          [S1 EXCEPT !.hw = HwRelease(@, S1.monitoring_stream, rel),
                                     !.monitoring_stream = None],
                          S1.monitoring_stream, rel),
                          Ev("clear", S1.monitoring_stream, 0, 0, "monitoring_stream")),
                          Ev("sleep", 0, 0, 0, "150"))
                   ELSE LogRelease(
                          [S1 EXCEPT !.hw = HwRelease(@, S1.monitoring_stream, rel)],
                          S1.monitoring_stream, rel)
              ELSE S1
    IN [S2 EXCEPT !.current_level = 0]

\* The log records the call with the handle the engine holds on entry, and
\* the clearing of the handle between the release and the cooldown.
StopMonitoringF(S, rel) ==
    LET S1 == Log([S EXCEPT !.is_monitoring = FALSE],
                  Ev("stop_monitoring", S.monitoring_stream, 0, 0, "call"))
        S2 == IF S1.monitoring_stream # None
              THEN Log(Log(LogRelease(
                     [S1 EXCEPT !.hw = HwRelease(@, S1.monitoring_stream, rel),
                                !.monitoring_stream = None],
                     S1.monitoring_stream, rel),
                     Ev("clear", S1.monitoring_stream, 0, 0, "monitoring_stream")),
                     Ev("sleep", 0, 0, 0, "150"))
              ELSE S1
    IN [S2 EXCEPT !.current_level = 0]

StopMonitoringWith(Rels) ==
    \E rel \in Rels : Commit(StopMonitoringF(Cur, rel))

stop_monitoring == StopMonitoringWith(Releases)

\* ---- _scan_and_open_stream -----------------------------------------------
\* Mutant: candidates are appended without the "not in" tests.
SampleRates_NoDedup(S, native_sr) ==
    <<S.active_sr, native_sr, 44100, 48000>>

SampleRates(S, native_sr) ==
    LET r0 == IF S.active_sr # 0 THEN <<S.active_sr>> ELSE <<>>
        r1 == AppendUnique(r0, native_sr)
        r2 == AppendUnique(r1, 44100)
    IN AppendUnique(r2, 48000)

ChannelConfigs(S, max_in) ==
    IF max_in >= 2 THEN <<S.channels, 2>> ELSE <<S.channels>>

\* Mutant: a failed attempt ends the negotiation (the except does not continue).
ScanLoop_Fatal(S, drv, rates, chans, i, j) ==
    LET sr == rates[i]
        ch == chans[j]
        res == Attempt(S.hw, drv, sr, ch)
    IN IF res = "ok"
       THEN LET id == MinOf(FreeIds(S.hw))
            IN [S |-> Log([S EXCEPT !.hw = HwOpen(@, id, "input", TRUE),
                                   !.stream = id],
                          Ev("open_input", id, sr, ch, res)),
                success |-> TRUE, sr |-> sr, ch |-> ch]
       ELSE [S |-> Log(S, Ev("open_input", 0, sr, ch, "open_fail")),
             success |-> FALSE, sr |-> 0, ch |-> 0]

\* for sr in sample_rates: for ch in channel_configs, from attempt (i, j) on.
RECURSIVE ScanLoop(_, _, _, _, _, _)
ScanLoop(S, drv, rates, chans, i, j) ==
    IF i > Len(rates) THEN [S |-> S, success |-> FALSE, sr |-> 0, ch |-> 0]
    ELSE IF j > Len(chans) THEN ScanLoop(S, drv, rates, chans, i + 1, 1)
    ELSE LET sr == rates[i]
             ch == chans[j]
             res == Attempt(S.hw, drv, sr, ch)
         IN IF res = "ok"
            THEN LET id == MinOf(FreeIds(S.hw))
                 IN [S |-> Log([S EXCEPT !.hw = HwOpen(@, id, "input", TRUE),
                                        !.stream = id],
                               Ev("open_input", id, sr, ch, res)),
                     success |-> TRUE, sr |-> sr, ch |-> ch]
            ELSE IF res = "start_fail"
            THEN LET id == MinOf(FreeIds(S.hw))
                 IN ScanLoop(Log([S EXCEPT !.hw = HwOpen(@, id, "input", FALSE)],
                                 Ev("open_input", id, sr, ch, res)),
                             drv, rates, chans, i, j + 1)
            ELSE ScanLoop(Log(S, Ev("open_input", 0, sr, ch, res)),
                          drv, rates, chans, i, j + 1)

\* The log records the call with the rate and channel count the engine holds
\* on entry, then the device query, then every open attempt.
ScanAndOpenStream(S0, device_id, drv) ==
    LET S == Log(S0, Ev("scan", device_id, S0.active_sr, S0.channels, "call"))
    IN
    IF device_id \notin DOMAIN DeviceTable
    THEN [S |-> Log(S, Ev("query", device_id, 0, 0, "raised")),
          success |-> FALSE, sr |-> 0, ch |-> 0]
    ELSE LET info == DeviceTable[device_id]
         IN ScanLoop(Log(S, Ev("query", device_id, info.default_samplerate,
                               info.max_input_channels, "ok")),
                     drv, SampleRates(S, info.default_samplerate),
                     ChannelConfigs(S, info.max_input_channels), 1, 1)

\* ---- start_monitoring ----------------------------------------------------
\* Mutant: the is-monitoring flag is not set after a successful open.
StartMonitoringF_NoFlag(S, device_id, drv) ==
    LET S1 == StopMonitoringF(S, drv.rel)
        target_device == IF device_id # NoDevice THEN device_id ELSE S1.input_device
    IN IF target_device = NoDevice THEN S1
       ELSE LET r == ScanAndOpenStream(S1, target_device, drv)
            IN IF r.success
               THEN [r.S EXCEPT !.monitoring_stream = r.S.stream,
                                !.stream = None,
                                !.active_sr = r.sr,
                                !.active_channels = r.ch]
               ELSE r.S

\* Mutant: the negotiated rate and channel count are not recorded.
StartMonitoringF_StaleConfig(S, device_id, drv) ==
    LET S1 == StopMonitoringF(S, drv.rel)
        target_device == IF device_id # NoDevice THEN device_id ELSE S1.input_device
    IN IF target_device = NoDevice THEN S1
       ELSE LET r == ScanAndOpenStream(S1, target_device, drv)
            IN IF r.success
               THEN [r.S EXCEPT !.monitoring_stream = r.S.stream,
                                !.stream = None,
                                !.is_monitoring = TRUE]
               ELSE r.S

StartMonitoringF(S, device_id, drv) ==
    LET S1 == StopMonitoringF(S, drv.rel)
        target_device == IF device_id # NoDevice THEN device_id ELSE S1.input_device
    IN IF target_device = NoDevice THEN S1
       ELSE LET r == ScanAndOpenStream(S1, target_device, drv)
            IN IF r.success
               THEN [r.S EXCEPT !.monitoring_stream = r.S.stream,
                                !.stream = None,
                                !.is_monitoring = TRUE,
                                !.active_sr = r.sr,
                                !.active_channels = r.ch]
               ELSE r.S

StartMonitoringWith(Ids, Drvs) ==
    \E device_id \in Ids, drv \in Drvs :
        Commit(StartMonitoringF(Cur, device_id, drv))

start_monitoring == StartMonitoringWith(MonitorIds, Drivers)

\* ---- start_recording -----------------------------------------------------
OutputNative(S) ==
    LET d == IF S.output_device = NoDevice THEN DefaultOutput ELSE S.output_device
    IN IF d \in DOMAIN DeviceTable /\ DeviceTable[d].max_output_channels >= 1
       THEN <<DeviceTable[d].default_samplerate>>
       ELSE <<>>

RECURSIVE Dedup(_, _)
Dedup(cands, acc) ==
    IF cands = <<>> THEN acc
    ELSE Dedup(Tail(cands), AppendUnique(acc, Head(cands)))

\* Mutant: the output device's native rate is tried after the standard rates.
SrToTry_NativeLast(S) ==
    Dedup(<<S.active_sr, 44100, 48000>> \o OutputNative(S), <<>>)

SrToTry(S) == Dedup(<<S.active_sr>> \o OutputNative(S) \o <<44100, 48000>>, <<>>)

\* Mutant: the handle is dropped without closing the stream.
CloseStream_NoClose(S) ==
    IF S.stream # None
    THEN Log([S EXCEPT !.stream = None], Ev("close", S.stream, 0, 0, "ok"))
    ELSE S

\* "Clean up from previous failed loop attempt" / "Cleanup immediate".
CloseStream(S) ==
    IF S.stream # None
    THEN Log([S EXCEPT !.hw = HwClose(@, S.stream), !.stream = None],
             Ev("close", S.stream, 0, 0, "ok"))
    ELSE S

RECURSIVE DuplexLoop(_, _, _, _)
DuplexLoop(S, drv, rates, i) ==
    IF i > Len(rates) THEN [S |-> S, success |-> FALSE, raised |-> FALSE]
    ELSE IF S.stream = Unset
    THEN [S |-> Log(S, Ev("raise", 0, 0, 0, "AttributeError")), success |-> FALSE,
          raised |-> TRUE]
    ELSE LET S1 == CloseStream(S)
             sr == rates[i]
             res == Attempt(S1.hw, drv, sr, S1.active_channels)
         IN IF res = "ok"
            THEN LET id == MinOf(FreeIds(S1.hw))
                 IN [S |-> Log([S1 EXCEPT !.hw = HwOpen(@, id, "duplex", TRUE),
                                         !.stream = id,
                                         !.active_sr = sr],
                               Ev("open_duplex", id, sr, S1.active_channels, res)),
                     success |-> TRUE, raised |-> FALSE]
            ELSE IF res = "start_fail"
            THEN LET id == MinOf(FreeIds(S1.hw))
                     S2 == Log([S1 EXCEPT !.hw = HwOpen(@, id, "duplex", FALSE),
                                          !.stream = id],
                               Ev("open_duplex", id, sr, S1.active_channels, res))
                 IN DuplexLoop(Log(CloseStream(S2), Ev("sleep", 0, 0, 0, "100")),
                               drv, rates, i + 1)
            ELSE DuplexLoop(Log(Log(S1, Ev("open_duplex", 0, sr, S1.active_channels, res)),
                                Ev("sleep", 0, 0, 0, "100")),
                            drv, rates, i + 1)

\* Mutant: the duplex stream is opened right after playback is stopped,
\* without the settle delay.
HardReset_NoSettle(S, rel) ==
    Log(StopMonitoringF(S, rel), Ev("sd.stop", 0, 0, 0, "ok"))

\* "1. STOP EVERYTHING": stop_monitoring(); sd.stop(); time.sleep(0.3)
HardReset(S, rel) ==
    Log(Log(StopMonitoringF(S, rel), Ev("sd.stop", 0, 0, 0, "ok")),
        Ev("sleep", 0, 0, 0, "300"))

\* The log records the rate and channel count held when the candidates are
\* computed, and the query of the output device.
LogCandidates(S) ==
    LET native == OutputNative(S)
    IN Log(Log(S, Ev("duplex_scan", S.output_device, S.active_sr,
                     S.active_channels, "call")),
           IF native # <<>>
           THEN Ev("query_output", S.output_device, native[1], 0, "ok")
           ELSE Ev("query_output", S.output_device, 0, 0, "raised"))

\* Mutant: the click armed before the call stays armed.
ResetClick_KeepArmed(S) ==
    Log(S, Ev("click_reset", 0, S.click_ptr, 0,
              IF S.click_to_play # NoClick THEN "armed" ELSE "idle"))

\* with self._click_lock: self._click_to_play = None; self._click_ptr = 0.
\* The log records whether a click was armed.
ResetClick(S) ==
    Log([S EXCEPT !.click_to_play = NoClick,
                  !.click_ptr = 0, !.cursor_of = NoClick,
                  !.click_out = <<>>],
        Ev("click_reset", 0, S.click_ptr, 0,
           IF S.click_to_play # NoClick THEN "armed" ELSE "idle"))

\* start_recording past its guard.
StartRecordingRun(S, drv, drvMon) ==
    LET S2 == HardReset(S, drv.rel)
        S3 == LogCandidates(
                ResetClick([S2 EXCEPT !.recording_data = <<>>,
                                      !.is_recording = TRUE,
                                      !.delivered = <<>>]))
        r == DuplexLoop(S3, drv, SrToTry(S3), 1)
    IN IF r.raised \/ r.success THEN r.S
       ELSE Log(StartMonitoringF([r.S EXCEPT !.is_recording = FALSE],
                                 NoDevice, drvMon),
                Ev("raise", 0, 0, 0, "Exception"))

\* The log records a call that found the engine recording.
LogNoOp(S) == Log(S, Ev("start_recording", S.stream, S.active_sr, 0, "recording"))

\* Mutant: the call runs whether or not the engine is recording.
StartRecordingF_NoGuard(S, drv, drvMon) ==
    StartRecordingRun(IF S.is_recording THEN LogNoOp(S) ELSE S, drv, drvMon)

\* if self._is_recording: return
StartRecordingF(S, drv, drvMon) ==
    IF S.is_recording THEN LogNoOp(S)
    ELSE StartRecordingRun(S, drv, drvMon)

StartRecordingWith(Drvs) ==
    \E drv \in Drvs :
        LET r == StartRecordingF(Cur, drv, drv)
        IN IF Raised(r, "Exception")
           THEN \E drvMon \in Drvs :
                    Commit(StartRecordingF(Cur, drv, drvMon))
           ELSE Commit(r)

start_recording == StartRecordingWith(Drivers)

\* ---- stop_recording ------------------------------------------------------
\* np.concatenate(blocks, axis=0): the samples of the blocks, one block after
\* the other, as runs of equal samples; flatten() changes the shape only.
RECURSIVE Concatenate(_)
Concatenate(blocks) ==
    IF blocks = <<>> THEN <<>>
    ELSE AppendRun(Concatenate(SubSeq(blocks, 1, Len(blocks) - 1)),
                   blocks[Len(blocks)].v, blocks[Len(blocks)].n)

\* Mutant: the stream is released but the handle is kept.
StopRecordingF_KeepHandle(S, rel) ==
    LET S0 == Log(S, Ev("stop_recording", S.stream, 0, 0,
                        IF S.is_recording THEN "recording" ELSE "idle"))
    IN IF ~S.is_recording
       THEN [S0 EXCEPT !.returned = [called |-> TRUE, audio |-> <<>>]]
       ELSE LET S1 == [S0 EXCEPT !.is_recording = FALSE]
                S2 == IF S1.stream # None
                      THEN Log(LogRelease(
                                 [S1 EXCEPT !.hw = HwRelease(@, S1.stream, rel)],
                                 S1.stream, rel),
                               Ev("sleep", 0, 0, 0, "100"))
                      ELSE S1
            IN IF S1.stream = Unset
               THEN Log(S1, Ev("raise", 0, 0, 0, "AttributeError"))
               ELSE [S2 EXCEPT !.returned =
                                   [called |-> TRUE,
                                    audio |-> IF S2.recording_data = <<>> THEN <<>>
                                              ELSE Concatenate(S2.recording_data)]]

\* The log opens with the call: the handle held and the flag on entry.
StopRecordingF(S, rel) ==
    LET S0 == Log(S, Ev("stop_recording", S.stream, 0, 0,
                        IF S.is_recording THEN "recording" ELSE "idle"))
    IN IF ~S.is_recording
       THEN [S0 EXCEPT !.returned = [called |-> TRUE, audio |-> <<>>]]
       ELSE LET S1 == [S0 EXCEPT !.is_recording = FALSE]
                S2 == IF S1.stream # None
                      THEN Log(LogRelease(
                                 [S1 EXCEPT !.hw = HwRelease(@, S1.stream, rel),
                                            !.stream = None],
                                 S1.stream, rel),
                               Ev("sleep", 0, 0, 0, "100"))
                      ELSE S1
            IN IF S1.stream = Unset
               THEN Log(S1, Ev("raise", 0, 0, 0, "AttributeError"))
               ELSE [S2 EXCEPT !.returned =
                                   [called |-> TRUE,
                                    audio |-> IF S2.recording_data = <<>> THEN <<>>
                                              ELSE Concatenate(S2.recording_data)]]

StopRecordingWith(Rels) ==
    \E rel \in Rels : Commit(StopRecordingF(Cur, rel))

stop_recording == StopRecordingWith(Releases)

\* ---- the audio callbacks -------------------------------------------------
RECURSIVE ConcatRuns(_, _)
ConcatRuns(a, b) ==
    IF b = <<>> THEN a
    ELSE ConcatRuns(AppendRun(a, Head(b).v, Head(b).n), Tail(b))

\* Mutant: a batch of N samples or more leaves its first N samples.
ScopeUpdate_Head(buf, data) ==
    IF SumN(data) < SCOPE_BUFFER_SIZE
    THEN ConcatRuns(DropFirst(buf, SumN(data)), data)
    ELSE TakeFirst(data, SCOPE_BUFFER_SIZE)

\* np.roll(buf, -shift); buf[-shift:] = data   /   data[-size:]
\* for a batch data of shift samples, given as runs.
ScopeUpdate(buf, data) ==
    IF SumN(data) < SCOPE_BUFFER_SIZE
    THEN ConcatRuns(DropFirst(buf, SumN(data)), data)
    ELSE ConcatRuns(<<>>, DropFirst(data, SumN(data) - SCOPE_BUFFER_SIZE))

\* The same for a batch of shift samples of one value v.
ScopeWrite(buf, v, shift) == ScopeUpdate(buf, <<[v |-> v, n |-> shift]>>)

\* np.roll(buf, -shift): a new array, the first shift samples moved to the end.
Roll(buf, shift) == ConcatRuns(DropFirst(buf, shift), TakeFirst(buf, shift))

\* buf[-shift:] = data, in place.
WriteTail(buf, v, shift) == AppendRun(TakeFirst(buf, SumN(buf) - shift), v, shift)

\* Mutant: the gain-scaled level is stored without clipping.
Level_NoClip(v) == 5 * v

\* float(np.clip(rms * 5.0, 0, 1)), in hundredths, for a constant batch.
Level(v) == IF 5 * v > 100 THEN 100 ELSE IF 5 * v < 0 THEN 0 ELSE 5 * v

\* Mutant: a batch of N samples or more replaces the buffer whole.
MonitorBeginF_NoSlice(S, frames, v) ==
    LET S0 == Log(S, Ev("monitor_callback", 0, v, frames, "begin"))
    IN IF frames < SCOPE_BUFFER_SIZE
       THEN [S0 EXCEPT !.scope_buffer = Roll(@, frames),
                       !.scope_view = FALSE,
                       !.snapshot.live = FALSE,
                       !.cb = [pc |-> "rolled", v |-> v, frames |-> frames,
                               before |-> S.scope_buffer]]
       ELSE [S0 EXCEPT !.scope_buffer = <<[v |-> v, n |-> frames]>>,
                       !.scope_view = TRUE,
                       !.snapshot.live = FALSE,
                       !.cb = [pc |-> "assigned", v |-> v, frames |-> frames,
                               before |-> S.scope_buffer]]

\* The callback up to and including the assignment to self._scope_buffer:
\* the rolled copy, or a slice of the delivered batch.
MonitorBeginF(S, frames, v) ==
    LET S0 == Log(S, Ev("monitor_callback", 0, v, frames, "begin"))
    IN IF frames < SCOPE_BUFFER_SIZE
       THEN [S0 EXCEPT !.scope_buffer = Roll(@, frames),
                       !.scope_view = FALSE,
                       !.snapshot.live = FALSE,
                       !.cb = [pc |-> "rolled", v |-> v, frames |-> frames,
                               before |-> S.scope_buffer]]
       ELSE [S0 EXCEPT !.scope_buffer = <<[v |-> v, n |-> SCOPE_BUFFER_SIZE]>>,
                       !.scope_view = TRUE,
                       !.snapshot.live = FALSE,
                       !.cb = [pc |-> "assigned", v |-> v, frames |-> frames,
                               before |-> S.scope_buffer]]

\* The rest of the callback: the in-place write of the batch into the rolled
\* array, then the level.
MonitorEndF(S) ==
    LET S1 == IF S.cb.pc = "rolled"
              THEN [S EXCEPT !.scope_buffer = WriteTail(@, S.cb.v, S.cb.frames),
                             !.snapshot.data =
                                 IF S.snapshot.live
                                 THEN WriteTail(@, S.cb.v, S.cb.frames) ELSE @]
              ELSE S
    IN Log([S1 EXCEPT !.current_level = Level(S.cb.v), !.cb = NoCallback],
           Ev("monitor_callback", 0, S.cb.v, S.cb.frames, "end"))

MonitorCallbackF(S, frames, v, status) ==
    IF status THEN Log(S, Ev("monitor_callback", 0, v, frames, "status"))
    ELSE MonitorEndF(MonitorBeginF(S, frames, v))

monitor_callback ==
    \E s \in hw, frames \in MonFrames, v \in InputVals, status \in BOOLEAN :
        /\ s.kind = "input" /\ s.started
        /\ cb.pc = "idle"
        /\ Commit(MonitorCallbackF(Cur, frames, v, status))

\* The callback as the interface thread can observe it: the poll may run
\* between the assignment of the rolled array and the write into it.
MonitorBeginWith(Frames, Vals) ==
    \E s \in hw, frames \in Frames, v \in Vals, status \in BOOLEAN :
        /\ s.kind = "input" /\ s.started
        /\ cb.pc = "idle"
        /\ Commit(IF status THEN MonitorCallbackF(Cur, frames, v, status)
                  ELSE MonitorBeginF(Cur, frames, v))

monitor_begin == MonitorBeginWith(MonFrames, InputVals)

monitor_end ==
    /\ cb.pc # "idle"
    /\ Commit(MonitorEndF(Cur))

\* ---- get_scope_data / get_input_level ------------------------------------
\* return self._scope_buffer: the array itself, no lock taken.
GetScopeDataF(S) ==
    Log([S EXCEPT !.snapshot = [held |-> TRUE, live |-> TRUE,
                                view |-> S.scope_view, data |-> S.scope_buffer]],
        Ev("get_scope_data", 0, 0, 0, "return"))

get_scope_data == Commit(GetScopeDataF(Cur))

\* The value returned is logged, in hundredths.
GetInputLevelF(S) == Log(S, Ev("get_input_level", 0, S.current_level, 0, "return"))

get_input_level == Commit(GetInputLevelF(Cur))

\* ---- the host's input buffer ----------------------------------------------
\* After a callback has returned the host refills the buffer it delivered;
\* every array that is a view of it shows the new samples.
HostOverwriteF(S, w) ==
    Log([S EXCEPT !.scope_buffer = IF S.scope_view
                                   THEN <<[v |-> w, n |-> SCOPE_BUFFER_SIZE]>> ELSE @,
                  !.snapshot.data = IF S.snapshot.view
                                    THEN <<[v |-> w, n |-> SCOPE_BUFFER_SIZE]>> ELSE @],
        Ev("host_overwrite", 0, w, 0, "done"))

host_overwrite ==
    \E w \in InputVals :
        /\ cb.pc = "idle"
        /\ scope_view \/ snapshot.view
        /\ Commit(HostOverwriteF(Cur, w))

\* Mutant: the slice always starts at the beginning of the click.
ClickChunk_FromStart(S, frames) ==
    LET remaining == S.click_to_play.n - S.click_ptr
    IN [click |-> S.click_to_play, lo |-> 0, n |-> Min(frames, remaining)]

ClickChunk(S, frames) ==
    LET remaining == S.click_to_play.n - S.click_ptr
    IN [click |-> S.click_to_play, lo |-> S.click_ptr, n |-> Min(frames, remaining)]

\* if status: logger.warning(...)
LogStatus(S, id, status) ==
    IF status THEN Log(S, Ev("warning", id, 0, 0, "status")) ELSE S

\* Mutant: a callback with a status returns at once.
DuplexCallbackF_StatusReturns(S, id, frames, v, status) ==
    LET S0 == [LogStatus(Log(S, Ev("duplex_callback", id, S.click_ptr, frames,
                                   IF S.click_to_play # NoClick
                                   THEN "armed" ELSE "idle")),
                         id, status)
               EXCEPT !.delivered = IF S.is_recording
                                    THEN Append(@, [v |-> v, n |-> frames])
                                    ELSE @]
        S1 == [S0 EXCEPT !.scope_buffer = ScopeWrite(@, v, frames),
                         !.scope_view = frames >= SCOPE_BUFFER_SIZE,
                         !.snapshot.live = FALSE]
        S2 == IF S1.is_recording
              THEN [S1 EXCEPT !.recording_data = Append(@, [v |-> v, n |-> frames])]
              ELSE S1
    IN IF status THEN S0
       ELSE IF S2.click_to_play # NoClick
       THEN LET chunk == ClickChunk(S2, frames)
                ptr == S2.click_ptr + chunk.n
                done == ptr >= S2.click_to_play.n
            IN [S2 EXCEPT !.outdata = [c \in 0..(OUT_CHANNELS - 1) |-> chunk],
                          !.click_out = Append(@, chunk),
                          !.click_ptr = IF done THEN 0 ELSE ptr,
                          !.cursor_of = IF done THEN NoClick ELSE @,
                          !.click_to_play = IF done THEN NoClick ELSE @]
       ELSE S2

\* Mutant: the captured block is put in front of the blocks captured so far.
DuplexCallbackF_Prepend(S, id, frames, v, status) ==
    LET S0 == [LogStatus(Log(S, Ev("duplex_callback", id, S.click_ptr, frames,
                                   IF S.click_to_play # NoClick
                                   THEN "armed" ELSE "idle")),
                         id, status)
               EXCEPT !.delivered = IF S.is_recording
                                    THEN Append(@, [v |-> v, n |-> frames])
                                    ELSE @]
        S1 == [S0 EXCEPT !.scope_buffer = ScopeWrite(@, v, frames),
                         !.scope_view = frames >= SCOPE_BUFFER_SIZE,
                         !.snapshot.live = FALSE]
        S2 == IF S1.is_recording
              THEN [S1 EXCEPT !.recording_data = <<[v |-> v, n |-> frames]>> \o @]
              ELSE S1
    IN IF S2.click_to_play # NoClick
       THEN LET chunk == ClickChunk(S2, frames)
                ptr == S2.click_ptr + chunk.n
                done == ptr >= S2.click_to_play.n
            IN [S2 EXCEPT !.outdata = [c \in 0..(OUT_CHANNELS - 1) |-> chunk],
                          !.click_out = Append(@, chunk),
                          !.click_ptr = IF done THEN 0 ELSE ptr,
                          !.cursor_of = IF done THEN NoClick ELSE @,
                          !.click_to_play = IF done THEN NoClick ELSE @]
       ELSE S2

DuplexCallbackF(S, id, frames, v, status) ==
    LET S0 == [LogStatus(Log(S, Ev("duplex_callback", id, S.click_ptr, frames,
                                   IF S.click_to_play # NoClick
                                   THEN "armed" ELSE "idle")),
                         id, status)
               EXCEPT !.delivered = IF S.is_recording
                                    THEN Append(@, [v |-> v, n |-> frames])
                                    ELSE @]
        S1 == [S0 EXCEPT !.scope_buffer = ScopeWrite(@, v, frames),
                         !.scope_view = frames >= SCOPE_BUFFER_SIZE,
                         !.snapshot.live = FALSE]
        S2 == IF S1.is_recording
              THEN [S1 EXCEPT !.recording_data = Append(@, [v |-> v, n |-> frames])]
              ELSE S1
    IN IF S2.click_to_play # NoClick
       THEN LET chunk == ClickChunk(S2, frames)
                ptr == S2.click_ptr + chunk.n
                done == ptr >= S2.click_to_play.n
            IN [S2 EXCEPT !.outdata = [c \in 0..(OUT_CHANNELS - 1) |-> chunk],
                          !.click_out = Append(@, chunk),
                          !.click_ptr = IF done THEN 0 ELSE ptr,
                          !.cursor_of = IF done THEN NoClick ELSE @,
                          !.click_to_play = IF done THEN NoClick ELSE @]
       ELSE S2

DuplexCallbackOn(Vals, Statuses) ==
    \E s \in hw, v \in Vals, status \in Statuses :
        /\ s.kind = "duplex" /\ s.started
        /\ is_recording => Len(recording_data) < MaxChunks
        /\ Commit(DuplexCallbackF(Cur, s.id, BLOCKSIZE, v, status))

\* The callback of a driver that reports no underrun or overrun.
DuplexCallbackWith(Vals) == DuplexCallbackOn(Vals, {FALSE})

duplex_callback == DuplexCallbackOn(InputVals, BOOLEAN)

\* The control path: sessions are started and stopped against drivers that
\* may refuse any configuration; the metronome arms its default click.
Next ==
    \/ set_devices
    \/ set_sample_rate
    \/ PlayClickWith({FALSE}, {FALSE})
    \/ StopMonitoringWith({"ok"})
    \/ start_monitoring
    \/ start_recording
    \/ StopRecordingWith({"ok"})

Spec == Init /\ [][Next]_vars

\* ---- save_wav / load_wav --------------------------------------------------
\* An array is its shape and its values in row-major order (the order of
\* tobytes() and of the frames in the file), as runs [v, n]: the pattern v
\* repeated n times. Float samples are in hundredths,
\* loaded samples in units of 1/32767.
RECURSIVE Count(_)
Count(runs) ==
    IF runs = <<>> THEN 0 ELSE Len(Head(runs).v) * Head(runs).n + Count(Tail(runs))

\* What stop_recording returns for blocks of ch channels: the frames of the
\* blocks, flattened to one dimension when there is one channel.
ReturnedArray(ch, blocks) ==
    IF blocks = <<>> THEN [ndim |-> 1, cols |-> 1, runs |-> <<>>]
    ELSE [ndim |-> IF ch = 1 THEN 1 ELSE 2, cols |-> ch,
          runs |-> Concatenate(blocks)]

Trunc(n, d) == IF n >= 0 THEN n \div d ELSE -((-n) \div d)

Int16(x) == ((x + 32768) % 65536) - 32768

\* Mutant: the samples are scaled by 32768.
ToPcm_Scale32768(a) == Int16(Trunc(a * 32768, 100))

\* (data * 32767).astype(np.int16), for a sample of a hundredths.
ToPcm(a) == Int16(Trunc(a * 32767, 100))

PcmRuns(runs) ==
    [k \in 1..Len(runs) |->
        [v |-> [c \in 1..Len(runs[k].v) |-> ToPcm(runs[k].v[c])], n |-> runs[k].n]]

SaveWavF(S, data) ==
    LET audio_pcm == PcmRuns(data.runs)
        sr == IF S.active_sr # 0 THEN S.active_sr ELSE SAMPLE_RATE
        ch == IF S.active_channels # 0 THEN S.active_channels ELSE S.channels
    IN [S EXCEPT !.wavfile = [present |-> TRUE, nchannels |-> ch, framerate |-> sr,
                              nframes |-> Count(audio_pcm) \div ch,
                              pcm |-> audio_pcm],
                 !.result = [op |-> "save_wav", val |-> data]]

\* reshape(-1, nchannels)[:, 0] on one run of whole frames: the first sample
\* of every frame.
FirstChannel(run, nchannels) ==
    IF Len(run.v) % nchannels = 0
    THEN [v |-> [c \in 1..(Len(run.v) \div nchannels) |-> run.v[(c - 1) * nchannels + 1]],
          n |-> run.n]
    ELSE [v |-> <<run.v[1]>>, n |-> (Len(run.v) * run.n) \div nchannels]

LoadWavF(S) ==
    IF ~S.wavfile.present
    THEN Log(S, Ev("raise", 0, 0, 0, "FileNotFoundError"))
    ELSE LET f == S.wavfile
             audio_float == f.pcm
             mono == IF f.nchannels > 1
                     THEN [k \in 1..Len(audio_float) |->
                              FirstChannel(audio_float[k], f.nchannels)]
                     ELSE audio_float
         IN [S EXCEPT !.result = [op |-> "load_wav",
                                  val |-> [audio |-> mono, framerate |-> f.framerate]]]

\* The values of the first and of the second channel of a captured frame.
WavVals == {-33, 50, 100}
OtherChannel(v) == 0 - v

WavBlocks(ch) ==
    {[v |-> [c \in 1..ch |-> IF c = 1 THEN a ELSE OtherChannel(a)], n |-> BLOCKSIZE] :
        a \in WavVals}

WavBlockSeqs(ch) ==
    UNION {[1..k -> WavBlocks(ch)] : k \in 0..MaxChunks}

WavArrays == {ReturnedArray(ch, blocks) : ch \in {1}, blocks \in WavBlockSeqs(1)}
    \cup {ReturnedArray(ch, blocks) : ch \in {2}, blocks \in WavBlockSeqs(2)}

save_wav == \E data \in WavArrays : Commit(SaveWavF(Cur, data))

load_wav == Commit(LoadWavF(Cur))

\* ---- play_click and duplex_callback, statement by statement ---------------
\* sample = ... (line 296), before the lock is asked for.
PlayClickSelectF(S, accent, countin) ==
    [S EXCEPT !.ui = [pc |-> "acquire",
                      sample |-> IF countin THEN S.click_countin
                                 ELSE IF accent THEN S.click_accent
                                 ELSE S.click_sample]]

\* Mutant: the buffer and the cursor are written without the lock.
PlayClickAcquireF_NoLock(S) == [S EXCEPT !.ui.pc = "write_buffer"]

\* with self._click_lock: entered.
PlayClickAcquireF(S) == [S EXCEPT !.click_lock = "ui", !.ui.pc = "write_buffer"]

\* self._click_to_play = sample
PlayClickWriteBufferF(S) ==
    Log([S EXCEPT !.click_to_play = S.ui.sample, !.click_out = <<>>,
                  !.ui.pc = "write_ptr"],
        Ev("arm", 0, S.click_ptr, 0,
           IF S.click_to_play = NoClick THEN "fresh" ELSE "replaced"))

\* self._click_ptr = 0, and the with block is left.
PlayClickWritePtrF(S) ==
    [S EXCEPT !.click_ptr = 0, !.cursor_of = S.click_to_play,
              !.click_lock = IF @ = "ui" THEN "free" ELSE @,
              !.ui.pc = "preview"]

\* if not self._is_recording: sd.play(...)
PlayClickPreviewF(S, playOk) ==
    LET S1 == [S EXCEPT !.ui = NoCall]
    IN IF ~S.is_recording
       THEN Log(S1, Ev("sd.play", 0, S.active_sr, S.ui.sample.sr,
                       IF playOk THEN "ok" ELSE "raised"))
       ELSE S1

click_select ==
    \E accent \in BOOLEAN :
        /\ ui.pc = "idle"
        /\ Commit(PlayClickSelectF(Cur, accent, FALSE))

click_acquire ==
    /\ ui.pc = "acquire" /\ click_lock = "free"
    /\ Commit(PlayClickAcquireF(Cur))

click_write_buffer == ui.pc = "write_buffer" /\ Commit(PlayClickWriteBufferF(Cur))

click_write_ptr == ui.pc = "write_ptr" /\ Commit(PlayClickWritePtrF(Cur))

click_preview ==
    \E playOk \in BOOLEAN : ui.pc = "preview" /\ Commit(PlayClickPreviewF(Cur, playOk))

\* Lines 447-462: the input block is shown and captured, outdata is zeroed.
CallbackInputF(S, id, frames, v) ==
    LET S0 == [Log(S, Ev("duplex_callback", id, S.click_ptr, frames, "input"))
               EXCEPT !.delivered = IF S.is_recording
                                    THEN Append(@, [v |-> v, n |-> frames])
                                    ELSE @]
        S1 == [S0 EXCEPT !.scope_buffer = ScopeWrite(@, v, frames),
                         !.scope_view = frames >= SCOPE_BUFFER_SIZE,
                         !.snapshot.live = FALSE]
        S2 == IF S1.is_recording
              THEN [S1 EXCEPT !.recording_data = Append(@, [v |-> v, n |-> frames])]
              ELSE S1
    IN [S2 EXCEPT !.audio = [NoBlock EXCEPT !.pc = "acquire", !.id = id,
                                            !.frames = frames]]

\* with self._click_lock: entered.
CallbackAcquireF(S) == [S EXCEPT !.click_lock = "audio", !.audio.pc = "read"]

\* Lines 464-467: the armed buffer and the cursor are read, the slice taken.
CallbackReadF(S) ==
    IF S.click_to_play = NoClick
    THEN [S EXCEPT !.click_lock = IF @ = "audio" THEN "free" ELSE @, !.audio = NoBlock]
    ELSE LET remaining == S.click_to_play.n - S.click_ptr
         IN Log([S EXCEPT !.audio.click = S.click_to_play,
                          !.audio.ptr = S.click_ptr,
                          !.audio.to_copy = Min(S.audio.frames, remaining),
                          !.audio.pc = "copy"],
                Ev("click_read", S.audio.id, S.click_ptr, S.click_to_play.n, "armed"))

\* Lines 468-470: the slice goes to every output channel, the cursor moves.
CallbackCopyF(S) ==
    LET chunk == [click |-> S.audio.click, lo |-> S.audio.ptr, n |-> S.audio.to_copy]
    IN [S EXCEPT !.outdata = [c \in 0..(OUT_CHANNELS - 1) |-> chunk],
                 !.click_out = Append(@, chunk),
                 !.click_ptr = @ + S.audio.to_copy,
                 !.audio.pc = "finish"]

\* Lines 471-473: a click played to its end is disarmed; the with block is
\* left.
CallbackFinishF(S) ==
    LET done == S.click_ptr >= S.click_to_play.n
    IN [S EXCEPT !.click_to_play = IF done THEN NoClick ELSE @,
                 !.click_ptr = IF done THEN 0 ELSE @,
                 !.cursor_of = IF done THEN NoClick ELSE @,
                 !.click_lock = IF @ = "audio" THEN "free" ELSE @,
                 !.audio = NoBlock]

callback_input ==
    \E s \in hw :
        /\ s.kind = "duplex" /\ s.started
        /\ audio.pc = "idle"
        /\ is_recording => Len(recording_data) < MaxChunks
        /\ Commit(CallbackInputF(Cur, s.id, BLOCKSIZE, 10))

\* Mutant: the callback also waits for the stream lock.
CallbackCanEnter_StreamLock(S) == S.click_lock = "free" /\ S.stream_lock = "free"

\* What the callback waits for at 'with self._click_lock'.
CallbackCanEnter(S) == S.click_lock = "free"

callback_acquire ==
    /\ audio.pc = "acquire" /\ CallbackCanEnter(Cur)
    /\ Commit(CallbackAcquireF(Cur))

callback_read == audio.pc = "read" /\ Commit(CallbackReadF(Cur))

callback_copy == audio.pc = "copy" /\ Commit(CallbackCopyF(Cur))

callback_finish == audio.pc = "finish" /\ Commit(CallbackFinishF(Cur))

\* ---- the callbacks on batches of several values and channels --------------
\* Mutant: the last channel is shown.
LastColumn(indata) ==
    ConcatRuns(<<>>, [k \in 1..Len(indata.runs) |->
                         [v |-> indata.runs[k].v[indata.cols], n |-> indata.runs[k].n]])

\* indata is [cols, runs]: runs of n frames, each frame the tuple v of one
\* value per channel. indata[:, 0] is the first value of every frame.
FirstColumn(indata) ==
    ConcatRuns(<<>>, [k \in 1..Len(indata.runs) |->
                         [v |-> indata.runs[k].v[1], n |-> indata.runs[k].n]])

ISqrt(x) == CHOOSE r \in 0..x : r * r <= x /\ (r + 1) * (r + 1) > x

RECURSIVE SumSquares(_)
SumSquares(runs) ==
    IF runs = <<>> THEN 0
    ELSE Head(runs).n * SumN([c \in 1..Len(Head(runs).v) |->
                                 [n |-> Head(runs).v[c] * Head(runs).v[c]]])
         + SumSquares(Tail(runs))

\* np.sqrt(np.mean(indata**2)), over all channels, in hundredths.
Rms(indata) == ISqrt(SumSquares(indata.runs) \div (SumN(indata.runs) * indata.cols))

MonitorBatchF(S, indata, status) ==
    IF status
    THEN Log(S, Ev("monitor_callback", 0, 0, SumN(indata.runs), "status"))
    ELSE LET data == FirstColumn(indata)
             shift == SumN(data)
         IN Log([S EXCEPT !.scope_buffer = ScopeUpdate(@, data),
                          !.scope_view = shift >= SCOPE_BUFFER_SIZE,
                          !.snapshot.live = FALSE,
                          !.current_level = Level(Rms(indata)),
                          !.result = [op |-> "monitor_batch", val |-> indata]],
                Ev("monitor_callback", 0, 0, shift, "end"))

DuplexBatchF(S, id, indata, status) ==
    LET frames == SumN(indata.runs)
        data == FirstColumn(indata)
        S0 == LogStatus(Log(S, Ev("duplex_callback", id, S.click_ptr, frames,
                                  IF S.click_to_play # NoClick
                                  THEN "armed" ELSE "idle")),
                        id, status)
        S1 == [S0 EXCEPT !.scope_buffer = ScopeUpdate(@, data),
                         !.scope_view = frames >= SCOPE_BUFFER_SIZE,
                         !.snapshot.live = FALSE,
                         !.result = [op |-> "duplex_batch", val |-> indata]]
        S2 == IF S1.is_recording
              THEN [S1 EXCEPT !.recording_data = Append(@, indata)]
              ELSE S1
    IN IF S2.click_to_play # NoClick
       THEN LET chunk == ClickChunk(S2, frames)
                ptr == S2.click_ptr + chunk.n
                done == ptr >= S2.click_to_play.n
            IN [S2 EXCEPT !.outdata = [c \in 0..(OUT_CHANNELS - 1) |-> chunk],
                          !.click_out = Append(@, chunk),
                          !.click_ptr = IF done THEN 0 ELSE ptr,
                          !.cursor_of = IF done THEN NoClick ELSE @,
                          !.click_to_play = IF done THEN NoClick ELSE @]
       ELSE S2

\* A batch of frames frames on cols channels: its first half of value a, its
\* second half of value b, the other channels carrying the opposite values.
Batch(cols, frames, a, b) ==
    [cols |-> cols,
     runs |-> <<[v |-> [c \in 1..cols |-> IF c = 1 THEN a ELSE 0 - a],
                 n |-> frames \div 2],
                [v |-> [c \in 1..cols |-> IF c = 1 THEN b ELSE 0 - b],
                 n |-> frames - frames \div 2]>>]

BatchVals == {<<10, 50>>, <<50, 10>>}

\* Batches shorter than, as long as and longer than the scope buffer.
ScopeFrames == {1024, 2048, 4096}

monitor_batch ==
    \E s \in hw, frames \in ScopeFrames, ab \in BatchVals, status \in BOOLEAN :
        /\ s.kind = "input" /\ s.started
        /\ Commit(MonitorBatchF(Cur, Batch(active_channels, frames, ab[1], ab[2]),
                                status))

duplex_batch ==
    \E s \in hw, ab \in BatchVals, status \in BOOLEAN :
        /\ s.kind = "duplex" /\ s.started
        /\ is_recording => Len(recording_data) < MaxChunks
        /\ Commit(DuplexBatchF(Cur, s.id, Batch(active_channels, BLOCKSIZE, ab[1], ab[2]),
                               status))

\* ---- stop_monitoring and stop_recording, statement by statement -----------
\* stream.stop() returns when no callback of the stream is running.
MonitoringQuiet(S) == S.cb.pc = "idle"

DuplexQuiet(S) == S.audio.pc = "idle" \/ S.audio.id # S.stream

\* self._is_monitoring = False
StopMonitoringBeginF(S) ==
    Log([S EXCEPT !.is_monitoring = FALSE, !.ui.pc = "mstop_lock"],
        Ev("stop_monitoring", S.monitoring_stream, 0, 0, "call"))

\* with self._stream_lock: entered; if self._monitoring_stream:
StopMonitoringLockF(S) ==
    [S EXCEPT !.stream_lock = "ui",
              !.ui.pc = IF S.monitoring_stream # None
                        THEN "mstop_release" ELSE "mstop_unlock"]

\* stop(), close(), and the handle cleared in the finally.
StopMonitoringReleaseF(S, rel) ==
    Log(LogRelease([S EXCEPT !.hw = HwRelease(@, S.monitoring_stream, rel),
                             !.monitoring_stream = None,
                             !.ui.pc = "mstop_sleep"],
                   S.monitoring_stream, rel),
        Ev("clear", S.monitoring_stream, 0, 0, "monitoring_stream"))

\* time.sleep(0.15), the lock still held.
StopMonitoringSleepF(S) ==
    Log([S EXCEPT !.ui.pc = "mstop_unlock"], Ev("sleep", 0, 0, 0, "150"))

\* The with block is left; self._current_level = 0.0
StopMonitoringUnlockF(S) ==
    [S EXCEPT !.stream_lock = "free", !.current_level = 0, !.ui = NoCall]

\* if not self._is_recording: return ...; self._is_recording = False
StopRecordingBeginF(S) ==
    LET S0 == Log(S, Ev("stop_recording", S.stream, 0, 0,
                        IF S.is_recording THEN "recording" ELSE "idle"))
    IN IF ~S.is_recording
       THEN [S0 EXCEPT !.returned = [called |-> TRUE, audio |-> <<>>]]
       ELSE [S0 EXCEPT !.is_recording = FALSE, !.ui.pc = "rstop_lock"]

\* with self._stream_lock: entered; if self._stream:
StopRecordingLockF(S) ==
    IF S.stream = Unset
    THEN Log([S EXCEPT !.ui = NoCall], Ev("raise", 0, 0, 0, "AttributeError"))
    ELSE [S EXCEPT !.stream_lock = "ui",
                   !.ui.pc = IF S.stream # None THEN "rstop_release" ELSE "rstop_unlock"]

StopRecordingReleaseF(S, rel) ==
    LogRelease([S EXCEPT !.hw = HwRelease(@, S.stream, rel),
                         !.stream = None,
                         !.ui.pc = "rstop_sleep"],
               S.stream, rel)

\* time.sleep(0.1), the lock still held.
StopRecordingSleepF(S) ==
    Log([S EXCEPT !.ui.pc = "rstop_unlock"], Ev("sleep", 0, 0, 0, "100"))

\* The with block is left and the captured blocks are returned.
StopRecordingUnlockF(S) ==
    [S EXCEPT !.stream_lock = "free", !.ui = NoCall,
              !.returned = [called |-> TRUE,
                            audio |-> IF S.recording_data = <<>> THEN <<>>
                                      ELSE Concatenate(S.recording_data)]]

mstop_begin == ui.pc = "idle" /\ Commit(StopMonitoringBeginF(Cur))

mstop_lock ==
    /\ ui.pc = "mstop_lock" /\ stream_lock = "free"
    /\ Commit(StopMonitoringLockF(Cur))

mstop_release ==
    /\ ui.pc = "mstop_release" /\ MonitoringQuiet(Cur)
    /\ Commit(StopMonitoringReleaseF(Cur, "ok"))

mstop_sleep == ui.pc = "mstop_sleep" /\ Commit(StopMonitoringSleepF(Cur))

mstop_unlock == ui.pc = "mstop_unlock" /\ Commit(StopMonitoringUnlockF(Cur))

rstop_begin == ui.pc = "idle" /\ Commit(StopRecordingBeginF(Cur))

rstop_lock ==
    /\ ui.pc = "rstop_lock" /\ stream_lock = "free"
    /\ Commit(StopRecordingLockF(Cur))

rstop_release ==
    /\ ui.pc = "rstop_release" /\ DuplexQuiet(Cur)
    /\ Commit(StopRecordingReleaseF(Cur, "ok"))

rstop_sleep == ui.pc = "rstop_sleep" /\ Commit(StopRecordingSleepF(Cur))

rstop_unlock == ui.pc = "rstop_unlock" /\ Commit(StopRecordingUnlockF(Cur))

\* The audio path: the host delivers blocks to the callbacks of the started
\* streams while the interface arms clicks and starts and stops sessions.
AudioDrivers == {d \in Drivers : d.ok = AllRates /\ d.minCh = 1}

NextAudio ==
    \/ set_sample_rate
    \/ play_click
    \/ StartMonitoringWith({NoDevice}, AudioDrivers)
    \/ StartRecordingWith(AudioDrivers)
    \/ StopRecordingWith({"ok"})
    \/ DuplexCallbackWith(InputVals)

SpecAudio == Init /\ [][NextAudio]_vars

\* The release path: sessions are opened by a driver that accepts every
\* configuration and torn down by a host whose stop() or close() may raise.
ReleaseDrivers == {d \in AllDrivers : d.ok = AllRates /\ d.minCh = 1}

NextRelease ==
    \/ StartMonitoringWith(MonitorIds, ReleaseDrivers)
    \/ stop_monitoring
    \/ StartRecordingWith(ReleaseDrivers)
    \/ stop_recording

SpecRelease == Init /\ [][NextRelease]_vars

\* The scope path: the interface polls the scope buffer and the level while
\* the host runs the capture callbacks and reuses its input buffer. Sessions
\* are started and stopped between callbacks.

NextScope ==
    \/ cb.pc = "idle" /\ StartMonitoringWith({1}, AudioDrivers)
    \/ cb.pc = "idle" /\ StopMonitoringWith({"ok"})
    \/ cb.pc = "idle" /\ StartRecordingWith(AudioDrivers)
    \/ cb.pc = "idle" /\ StopRecordingWith({"ok"})
    \/ cb.pc = "idle" /\ DuplexCallbackWith({10})
    \/ MonitorBeginWith(ScopeFrames, InputVals)
    \/ monitor_end
    \/ get_scope_data
    \/ get_input_level
    \/ host_overwrite

\* The configuration path: devices are selected, the selection is stored,
\* the host re-enumerates its devices and the application is started again;
\* a driver that refuses 44100 Hz makes the negotiation settle on another
\* rate than the one chosen.
SelectInputs == {NoDevice, 1}
SelectOutputs == {NoDevice, 0}

FallbackDrivers == {d \in Drivers : d.ok = {48000} /\ ~d.sf}

NextCatalog ==
    \/ replug
    \/ SetDevicesWith(SelectInputs, SelectOutputs)
    \/ set_sample_rate
    \/ StartMonitoringWith({NoDevice}, FallbackDrivers)
    \/ save_config
    \/ restart
    \/ get_device_list

\* A first start: nothing is stored yet.
InitCatalog == Init /\ input_device = NoDevice /\ output_device = NoDevice
                    /\ sample_rate = SAMPLE_RATE

SpecCatalog == InitCatalog /\ [][NextCatalog]_vars

\* An engine constructed with no saved configuration.
NextScorer == score

SpecScorer == InitCatalog /\ [][NextScorer]_vars

\* The files: arrays as stop_recording returns them are saved and loaded
\* while monitoring sessions negotiate one or two input channels.
WavDrivers == {d \in Drivers : d.ok = AllRates}

NextWav ==
    \/ StartMonitoringWith({0}, WavDrivers)
    \/ StopMonitoringWith({"ok"})
    \/ save_wav
    \/ load_wav

SpecWav == InitCatalog /\ [][NextWav]_vars

\* The metronome race: play_click runs statement by statement on the
\* interface thread while the host runs the duplex callback statement by
\* statement on the audio thread; both take _click_lock.
ClickDrivers == {d \in AudioDrivers : ~d.sf}

NextClick ==
    \/ (ui.pc = "idle" /\ set_sample_rate)
    \/ (ui.pc = "idle" /\ StartMonitoringWith({1}, ClickDrivers))
    \/ (ui.pc = "idle" /\ click_lock = "free" /\ StartRecordingWith(ClickDrivers))
    \/ (ui.pc = "idle" /\ audio.pc = "idle" /\ StopRecordingWith({"ok"}))
    \/ click_select
    \/ click_acquire
    \/ click_write_buffer
    \/ click_write_ptr
    \/ click_preview
    \/ callback_input
    \/ callback_acquire
    \/ callback_read
    \/ callback_copy
    \/ callback_finish

SpecClick == InitCatalog /\ [][NextClick]_vars

\* The scope: the host delivers batches of two values, on one or two
\* channels, to the monitoring and to the duplex callback.
NextBatch ==
    \/ StartMonitoringWith({0}, WavDrivers)
    \/ StartRecordingWith(WavDrivers)
    \/ monitor_batch
    \/ duplex_batch

SpecBatch == InitCatalog /\ [][NextBatch]_vars

\* The audio path with a driver that reports underruns and overruns to the
\* callback.
NextStatus ==
    \/ set_sample_rate
    \/ PlayClickWith({FALSE}, {FALSE})
    \/ StartMonitoringWith({1}, ClickDrivers)
    \/ StartRecordingWith(ClickDrivers)
    \/ StopRecordingWith({"ok"})
    \/ duplex_callback

SpecStatus == InitCatalog /\ [][NextStatus]_vars

\* The locks: the interface thread stops sessions and arms clicks statement
\* by statement while the audio thread runs the callbacks of the started
\* streams. A call that starts a session closes the previous one, and so
\* waits for its callback as a stop does.
StopSteps ==
    \/ mstop_lock
    \/ mstop_release
    \/ mstop_sleep
    \/ mstop_unlock
    \/ rstop_lock
    \/ rstop_release
    \/ rstop_sleep
    \/ rstop_unlock

InterfaceSteps ==
    \/ (ui.pc = "idle" /\ cb.pc = "idle" /\ StartMonitoringWith({1}, ClickDrivers))
    \/ (ui.pc = "idle" /\ cb.pc = "idle" /\ click_lock = "free"
        /\ StartRecordingWith(ClickDrivers))
    \/ click_select
    \/ click_acquire
    \/ click_write_buffer
    \/ click_write_ptr
    \/ click_preview
    \/ mstop_begin
    \/ rstop_begin

\* A stream that is being stopped starts no further callback; the one in
\* flight runs to its end.
CallbackStarts ==
    \/ (ui.pc # "rstop_release" /\ callback_input)
    \/ (ui.pc # "mstop_release" /\ MonitorBeginWith({BLOCKSIZE}, {10}))

DuplexCallbackSteps ==
    \/ callback_acquire
    \/ callback_read
    \/ callback_copy
    \/ callback_finish

NextLocks ==
    InterfaceSteps \/ StopSteps \/ CallbackStarts \/ DuplexCallbackSteps \/ monitor_end

SpecLocks == InitCatalog /\ [][NextLocks]_vars

\* The threads keep running: a statement of a stop, or of the callback of
\* either stream, that can run is run.
SpecLocksFair ==
    SpecLocks /\ WF_vars(StopSteps) /\ WF_vars(DuplexCallbackSteps) /\ WF_vars(monitor_end)

\* The negotiation with a stored configuration: the settings store may hold
\* one or two channels; no device is stored.
ChannelCounts == {CHANNELS, 2}

StoredConfigs ==
    [present : {TRUE}, sample_rate : Rates, channels : ChannelCounts,
     in_dev : {NoDevice}, out_dev : {NoDevice}]

InitStored == \E cfg \in StoredConfigs : InitFrom(LoadConfig(Constructed, cfg))

NextStored ==
    \/ set_sample_rate
    \/ StartMonitoringWith({0, 1}, Drivers)
    \/ StopMonitoringWith({"ok"})

SpecStored == InitStored /\ [][NextStored]_vars

InitScope == Init /\ input_device = NoDevice /\ output_device = NoDevice
                  /\ sample_rate = SAMPLE_RATE

SpecScope == InitScope /\ [][NextScope]_vars

\* ==== Properties ===========================================================
Started == {s \in hw : s.started}

HasEv(kind) == \E i \in 1..Len(events) : events[i].e = kind

RaisedNow(x) == Raised([events |-> events], x)

LastEv == events[Len(events)]

\* The open attempts of the step's monitoring negotiation, in order.
Attempts == SelectSeq(events, LAMBDA ev : ev.e = "open_input")

\* The distinct rates of a sequence of attempts, in order of first attempt.
RECURSIVE RatesOf(_)
RatesOf(a) ==
    IF a = <<>> THEN <<>>
    ELSE LET rest == RatesOf(SubSeq(a, 1, Len(a) - 1))
             sr == a[Len(a)].sr
         IN IF rest # <<>> /\ rest[Len(rest)] = sr THEN rest ELSE Append(rest, sr)

IsPrefix(p, q) == Len(p) <= Len(q) /\ \A i \in 1..Len(p) : p[i] = q[i]

NoRepeat(q) == \A i, j \in 1..Len(q) : i # j => q[i] # q[j]

\* C1: at most one hardware stream is active at any time; the monitoring
\* input stream and the duplex stream are never active together.
C1_SingleSession == Cardinality(Started) <= 1

\* C2: when start_recording raises because every duplex candidate failed,
\* the is-recording flag is false, the stream handle is cleared, no duplex
\* stream is open, and no click is armed.
C2_CleanAfterFailedRecording ==
    RaisedNow("Exception") =>
        /\ is_recording = FALSE
        /\ stream = None
        /\ click_to_play = NoClick /\ click_ptr = 0
        /\ \A s \in hw : s.kind # "duplex"

\* C2, for the streams of the failing call alone: the flag is false, the
\* handle is cleared, no click is armed, at least one candidate was tried,
\* none opened, and every stream that a failed attempt created was closed at
\* once, so that none is left open without having been started.
C2_FailedAttemptsClosed ==
    RaisedNow("Exception") =>
        /\ is_recording = FALSE
        /\ stream = None
        /\ click_to_play = NoClick /\ click_ptr = 0
        /\ \E i \in 1..Len(events) : events[i].e = "open_duplex"
        /\ \A i \in 1..Len(events) :
              events[i].e = "open_duplex" =>
                 /\ events[i].res # "ok"
                 /\ events[i].id # 0 =>
                       /\ events[i + 1].e = "close"
                       /\ events[i + 1].id = events[i].id
        /\ \A s \in hw : s.kind = "duplex" => s.started

C2_Witness ==
    /\ RaisedNow("Exception")
    /\ \E i \in 1..Len(events) :
          events[i].e = "open_duplex" /\ events[i].res = "start_fail"

C4_ExactlyOneStream ==
    (/\ HasEv("sd.stop")
     /\ events[2].e = "stop"
     /\ LastEv.e = "open_duplex" /\ LastEv.res = "ok") =>
        /\ monitoring_stream = None /\ ~is_monitoring
        /\ is_recording
        /\ Started = {[id |-> stream, kind |-> "duplex", started |-> TRUE]}

\* C5: a start_recording that is not a no-op either returns with the engine
\* Recording and the duplex stream open or raises because every candidate
\* failed, also on an engine on which no stream was ever opened; neither it
\* nor the following stop_recording raises anything else.
C5_FreshStartRecording ==
    /\ ~RaisedNow("AttributeError")
    /\ HasEv("sd.stop") =>
          \/ RaisedNow("Exception")
          \/ /\ LastEv.e = "open_duplex" /\ LastEv.res = "ok"
             /\ is_recording
             /\ [id |-> stream, kind |-> "duplex", started |-> TRUE] \in hw

CallbackEv == SelectSeq(events, LAMBDA ev : ev.e = "duplex_callback")
ArmEv == SelectSeq(events, LAMBDA ev : ev.e = "arm")

\* C6: the blocks emitted since a click of length L was armed are its slices
\* [0:B), [B:2B), ... in order, each min(B, L - start) samples long and the
\* same on every output channel; a callback that finds a click armed writes
\* the slice at the cursor and clears the click exactly when the slice
\* reaches L, so that the slices then add up to L; a callback that finds no
\* click armed leaves the block silent.
C6_ClickEmission ==
    LET segs == click_out
        last == segs[Len(segs)]
    IN /\ \A c \in DOMAIN outdata : outdata[c] = outdata[0]
       /\ \A i \in 1..Len(segs) :
            /\ segs[i].click = segs[1].click
            /\ segs[i].lo = (i - 1) * BLOCKSIZE
            /\ segs[i].n > 0
            /\ segs[i].n = Min(BLOCKSIZE, segs[1].click.n - segs[i].lo)
       /\ \A k \in 1..Len(CallbackEv) :
            IF CallbackEv[k].res = "armed"
            THEN /\ segs # <<>>
                 /\ outdata[0] = last
                 /\ last.lo = CallbackEv[k].sr
                 /\ (click_to_play = NoClick) = (last.lo + last.n = last.click.n)
                 /\ click_to_play = NoClick =>
                        click_ptr = 0 /\ SumN(segs) = last.click.n
                 /\ click_to_play # NoClick =>
                        click_to_play = last.click /\ click_ptr = last.lo + last.n
            ELSE outdata = Silence /\ click_to_play = NoClick

C6_Witness ==
    /\ CallbackEv # <<>> /\ CallbackEv[1].res = "armed"
    /\ Len(click_out) = 2
    /\ click_out[1].n = BLOCKSIZE
    /\ click_out[2].lo = BLOCKSIZE /\ click_out[2].n = 128
    /\ outdata[1] = click_out[2]
    /\ click_to_play = NoClick

\* C7: play_click leaves the sample its arguments select armed with the read
\* cursor at 0 and nothing emitted, whatever was armed before and however far
\* it had been read; while a click is armed everything emitted since it was
\* armed is that click's samples from 0 up to the cursor; and once the armed
\* click is used up no other click follows it.
C7_RearmReplaces ==
    /\ \A k \in 1..Len(ArmEv) :
         /\ click_to_play = (CASE ArmEv[k].id = 2 -> click_countin
                               [] ArmEv[k].id = 1 -> click_accent
                               [] OTHER -> click_sample)
         /\ click_to_play.freq = (CASE ArmEv[k].id = 2 -> FREQ_COUNTIN
                                    [] ArmEv[k].id = 1 -> FREQ_ACCENT
                                    [] OTHER -> FREQ_NORMAL)
         /\ click_ptr = 0
         /\ click_out = <<>>
    /\ click_to_play # NoClick =>
         /\ \A i \in 1..Len(click_out) : click_out[i].click = click_to_play
         /\ click_ptr = SumN(click_out)
    /\ click_out # <<>> => click_out[1].lo = 0
    /\ click_to_play = NoClick => click_ptr = 0

C7_Witness ==
    /\ ArmEv # <<>>
    /\ ArmEv[1].res = "replaced" /\ ArmEv[1].sr = BLOCKSIZE
    /\ click_ptr = 0 /\ click_to_play # NoClick

\* C8: the three click samples are generated for the active sample rate.
C8_ClicksMatchActiveRate ==
    /\ click_sample.sr = active_sr
    /\ click_accent.sr = active_sr
    /\ click_countin.sr = active_sr

\* C9: the monitoring negotiation tries (rate, channel) pairs rate-major,
\* goes on after a failed attempt, stops at the first pair that opens and
\* reports that pair as the accepted configuration.
C9_NegotiationOrder ==
    LET a == Attempts
        q == SelectSeq(events, LAMBDA ev : ev.e = "query" /\ ev.res = "ok")
        chans == IF q[1].ch >= 2 THEN <<channels, 2>> ELSE <<channels>>
        rates == RatesOf(a)
        ok == a # <<>> /\ a[Len(a)].res = "ok"
    IN q # <<>> =>
        /\ a # <<>>
        /\ \A i \in 1..(Len(a) - 1) : a[i].res # "ok"
        /\ NoRepeat(rates)
        /\ \A i \in 1..Len(a) :
              LET k == Cardinality({j \in 1..i : a[j].sr = a[i].sr})
              IN k <= Len(chans) /\ a[i].ch = chans[k]
        /\ \A i \in 1..(Len(a) - 1) :
              a[i].sr # a[i + 1].sr =>
                 Cardinality({j \in 1..i : a[j].sr = a[i].sr}) = Len(chans)
        /\ ok => /\ is_monitoring
                 /\ monitoring_stream = a[Len(a)].id
                 /\ active_sr = a[Len(a)].sr
                 /\ active_channels = a[Len(a)].ch
        /\ ~ok => /\ ~is_monitoring
                  /\ Len(a) = Len(rates) * Len(chans)
                  /\ {44100, 48000, q[1].sr, active_sr} = Range(rates)

C9_Witness ==
    /\ Len(Attempts) >= 3
    /\ Attempts[Len(Attempts)].res = "ok"
    /\ Attempts[1].sr = Attempts[2].sr /\ Attempts[1].ch # Attempts[2].ch
    /\ Attempts[3].sr # Attempts[1].sr

\* C10: the rates the monitoring negotiation tries are the last-used rate,
\* the device's native rate, 44100 and 48000, in that order, each kept only
\* at its first occurrence: all of them when every attempt fails, a prefix
\* ending at the accepted rate otherwise.
ExpectedRates(last, native) ==
    LET c == <<last, native, 44100, 48000>>
        keep == {i \in 1..4 : \A j \in 1..(i - 1) : c[j] # c[i]}
        F[i \in 0..4] ==
            IF i = 0 THEN <<>>
            ELSE IF i \in keep THEN Append(F[i - 1], c[i]) ELSE F[i - 1]
    IN F[4]

C10_CandidateRates ==
    LET a == Attempts
        c == SelectSeq(events, LAMBDA ev : ev.e = "scan")
        q == SelectSeq(events, LAMBDA ev : ev.e = "query" /\ ev.res = "ok")
        want == ExpectedRates(c[1].sr, q[1].sr)
    IN q # <<>> =>
         /\ IsPrefix(RatesOf(a), want)
         /\ NoRepeat(RatesOf(a))
         /\ a[Len(a)].res # "ok" => RatesOf(a) = want

C10_Witness ==
    /\ Attempts # <<>>
    /\ Attempts[Len(Attempts)].res # "ok"
    /\ RatesOf(Attempts) = <<44100, 48000>>
    /\ \E i \in 1..Len(events) : events[i].e = "query" /\ events[i].sr = 48000

ScanEv == SelectSeq(events, LAMBDA ev : ev.e = "scan")
QueryEv == SelectSeq(events, LAMBDA ev : ev.e = "query" /\ ev.res = "ok")

\* C11: after a start_monitoring whose negotiation opened a stream, the active
\* sample rate and channel count are those of the one attempt that opened,
\* every earlier attempt having failed. On a device with native rate 48000
\* and two input channels, with last-used rate 44100, the first attempt is
\* (44100, configured channels); the result is that pair when it opens, and
\* (48000, configured channels) when both attempts at 44100 fail and the
\* attempt after them opens.
C11_FirstPairThatOpened ==
    LET a == Attempts
        last == a[Len(a)]
    IN (a # <<>> /\ last.res = "ok") =>
         /\ \A i \in 1..(Len(a) - 1) : a[i].res # "ok"
         /\ active_sr = last.sr /\ active_channels = last.ch
         /\ (QueryEv[1].sr = 48000 /\ QueryEv[1].ch = 2 /\ ScanEv[1].sr = 44100) =>
              /\ a[1].sr = 44100 /\ a[1].ch = ScanEv[1].ch
              /\ a[1].res = "ok" =>
                    active_sr = 44100 /\ active_channels = ScanEv[1].ch
              /\ (Len(a) = 3 /\ a[1].sr = 44100 /\ a[2].sr = 44100) =>
                    active_sr = 48000 /\ active_channels = ScanEv[1].ch

C11_Witness ==
    /\ Len(Attempts) = 3 /\ Attempts[3].res = "ok"
    /\ QueryEv # <<>> /\ QueryEv[1].sr = 48000 /\ QueryEv[1].ch = 2
    /\ ScanEv[1].sr = 44100
    /\ Attempts[1].sr = 44100 /\ Attempts[1].res # "ok"
    /\ active_sr = 48000 /\ active_channels = CHANNELS

\* C12: when every (rate, channel) candidate of a start_monitoring call has
\* failed to open, the call ends by raising an error to its caller.
C12_ExhaustionRaises ==
    (/\ ~HasEv("sd.stop")
     /\ Attempts # <<>>
     /\ \A i \in 1..Len(Attempts) : Attempts[i].res # "ok")
    => HasEv("raise")

DuplexAttempts == SelectSeq(events, LAMBDA ev : ev.e = "open_duplex")
DuplexScanEv == SelectSeq(events, LAMBDA ev : ev.e = "duplex_scan")
OutQueryEv == SelectSeq(events, LAMBDA ev : ev.e = "query_output")

\* The first occurrences, in order, of the values of a list of candidates.
FirstOccurrences(c) ==
    LET keep == {i \in 1..Len(c) : \A j \in 1..(i - 1) : c[j] # c[i]}
        F[i \in 0..Len(c)] ==
            IF i = 0 THEN <<>>
            ELSE IF i \in keep THEN Append(F[i - 1], c[i]) ELSE F[i - 1]
    IN F[Len(c)]

\* C13: the duplex open attempts of a start_recording are made one per rate,
\* in the order last known-good rate, native rate of the output device (left
\* out when the query of the output device raised), 44100, 48000, each rate
\* at its first occurrence only; no attempt follows one that opened, every
\* rate is tried when none opens, and the rate that opened is the active rate.
C13_DuplexRateOrder ==
    LET a == DuplexAttempts
        want == FirstOccurrences(
                    <<DuplexScanEv[1].sr>>
                    \o (IF OutQueryEv[1].res = "ok" THEN <<OutQueryEv[1].sr>> ELSE <<>>)
                    \o <<44100, 48000>>)
    IN a # <<>> =>
         /\ Len(a) <= Len(want)
         /\ \A i \in 1..Len(a) : a[i].sr = want[i]
         /\ \A i \in 1..(Len(a) - 1) : a[i].res # "ok"
         /\ a[Len(a)].res = "ok" => active_sr = a[Len(a)].sr /\ is_recording
         /\ a[Len(a)].res # "ok" => Len(a) = Len(want)

C13_Witness ==
    /\ Len(DuplexAttempts) = 2
    /\ DuplexAttempts[1].sr = 96000 /\ DuplexAttempts[1].res # "ok"
    /\ DuplexAttempts[2].sr = 48000 /\ DuplexAttempts[2].res = "ok"
    /\ OutQueryEv[1].res = "ok" /\ OutQueryEv[1].sr = 48000
    /\ active_sr = 48000

\* C13, the other case: the query of the output device raised and the rates
\* tried are the last known-good rate, 44100 and 48000.
C13_WitnessNoNative ==
    /\ Len(DuplexAttempts) = 3
    /\ OutQueryEv[1].res = "raised"
    /\ DuplexAttempts[1].sr = 96000 /\ DuplexAttempts[2].sr = 44100
    /\ DuplexAttempts[3].sr = 48000 /\ DuplexAttempts[3].res = "ok"

InputStreams == {s \in hw : s.kind = "input"}

\* C14: at most one monitoring input stream is open, whatever start_monitoring
\* calls have been made; no stream of an earlier call is left open.
C14_OneMonitoringStream == Cardinality(InputStreams) <= 1

\* C14, for the stream of the previous session alone, with a host that
\* releases the streams it is asked to: a start_monitoring that finds a
\* monitoring stream open stops it, closes it and waits out the cooldown
\* before it queries the device or opens anything, and the only input stream
\* that is running is the one the engine holds as its monitoring stream.
C14_PreviousSessionClosed ==
    /\ \A s \in InputStreams : s.started => s.id = monitoring_stream
    /\ (ScanEv # <<>> /\ events[2].e = "stop") =>
          /\ events[2].res = "ok"
          /\ events[3].e = "close" /\ events[3].id = events[2].id
          /\ events[3].res = "ok"
          /\ events[5].e = "sleep" /\ events[5].res = "150"
          /\ \A i \in 1..Len(events) :
                events[i].e \in {"scan", "query", "open_input"} => i > 5

C14_Witness ==
    /\ ScanEv # <<>> /\ events[2].e = "stop" /\ ~HasEv("sd.stop")
    /\ is_monitoring /\ monitoring_stream # None
    /\ Cardinality(InputStreams) = 1

\* C15: a stop_monitoring made while no monitoring stream is held (never
\* started, or already stopped by the call before), on its own or as the
\* first step of a start_monitoring that then has no device to open, makes
\* no host call, applies no cooldown, raises nothing, and leaves every field
\* of the engine and every host stream as it was: Idle stays Idle and
\* Recording stays Recording.
C15_StopMonitoringIdempotent ==
    [][(/\ monitoring_stream = None
        /\ events' # <<>>
        /\ events'[1].e = "stop_monitoring"
        /\ \A i \in 1..Len(events') : events'[i].e \notin {"scan", "sd.stop"})
       => /\ Len(events') = 1
          /\ events'[1].id = None
          /\ UNCHANGED <<sample_rate, channels, is_recording, recording_data,
                         input_device, output_device, active_sr, active_channels,
                         monitoring_stream, current_level, is_monitoring,
                         click_sample, click_accent, click_countin,
                         scope_buffer, click_to_play, click_ptr, stream,
                         hw, click_out, delivered>>]_vars

C15_Witness ==
    /\ Len(events) = 1 /\ events[1].e = "stop_monitoring" /\ events[1].id = None
    /\ is_recording /\ stream \in StreamIds
    /\ \E s \in hw : s.id = stream /\ s.kind = "duplex" /\ s.started

C17_ResetBeforeOpen ==
    HasEv("sd.stop") =>
        LET p == CHOOSE i \in 1..Len(events) : events[i].e = "sd.stop"
        IN /\ events[1].e = "stop_monitoring"
           /\ events[1].id # None =>
                 /\ events[2].e = "stop" /\ events[2].id = events[1].id
                 /\ events[p - 1].e = "sleep" /\ events[p - 1].res = "150"
           /\ events[1].id = None => p = 2
           /\ \A i \in 1..Len(events) : events[i].e = "sd.stop" => i = p
           /\ Len(events) > p
           /\ events[p + 1].e = "sleep" /\ events[p + 1].res = "300"
           /\ \A i \in 1..Len(events) :
                 events[i].e \in {"open_duplex", "duplex_scan", "query_output"}
                    => i > p + 1

C17_Witness ==
    /\ HasEv("sd.stop")
    /\ events[1].e = "stop_monitoring" /\ events[1].id # None
    /\ LastEv.e = "open_duplex" /\ LastEv.res = "ok"
    /\ is_recording

\* The sample at position i (from 1) of a buffer of runs.
RECURSIVE SampleAt(_, _)
SampleAt(buf, i) ==
    IF i <= Head(buf).n THEN Head(buf).v
    ELSE SampleAt(Tail(buf), i - Head(buf).n)

\* The buffer holds exactly the samples of the blocks, block after block.
SameSamples(buf, blocks) ==
    /\ SumN(buf) = SumN(blocks)
    /\ \A i \in 1..SumN(blocks) : SampleAt(buf, i) = SampleAt(blocks, i)

StopRecordingStep == events' # <<>> /\ events'[1].e = "stop_recording"

\* C18: stop_recording called while Recording returns the in-order
\* concatenation of one copy of every input block delivered to the duplex
\* callback while the is-recording flag was set (an empty buffer when no
\* block was captured); called when the engine is not Recording it returns
\* an empty buffer and changes no state.
C18_StopRecordingReturnsCapture ==
    [][StopRecordingStep =>
          /\ returned'.called
          /\ is_recording =>
                /\ SameSamples(returned'.audio, delivered)
                /\ delivered = <<>> => returned'.audio = <<>>
          /\ ~is_recording =>
                /\ returned'.audio = <<>>
                /\ UNCHANGED <<sample_rate, channels, is_recording, recording_data,
                               input_device, output_device, active_sr,
                               active_channels, monitoring_stream, current_level,
                               is_monitoring, click_sample, click_accent,
                               click_countin, scope_buffer, click_to_play,
                               click_ptr, stream, hw, click_out>>]_vars

\* C18, for an engine whose stream handle has been assigned: the same
\* contract holds of every stop_recording.
C18_CaptureOnceHandleAssigned ==
    [][(StopRecordingStep /\ stream # Unset) =>
          /\ returned'.called
          /\ is_recording =>
                /\ SameSamples(returned'.audio, delivered)
                /\ delivered = <<>> => returned'.audio = <<>>
          /\ ~is_recording =>
                /\ returned'.audio = <<>>
                /\ UNCHANGED <<sample_rate, channels, is_recording, recording_data,
                               input_device, output_device, active_sr,
                               active_channels, monitoring_stream, current_level,
                               is_monitoring, click_sample, click_accent,
                               click_countin, scope_buffer, click_to_play,
                               click_ptr, stream, hw, click_out>>]_vars

C18_Witness ==
    /\ events # <<>> /\ events[1].e = "stop_recording" /\ events[1].res = "recording"
    /\ returned.called
    /\ delivered = <<[v |-> 10, n |-> BLOCKSIZE], [v |-> 50, n |-> BLOCKSIZE]>>
    /\ returned.audio = delivered

\* The most recent step was a stop_recording, called while the flag was
\* set, that returned.
StoppedSession ==
    /\ returned.called
    /\ events # <<>> /\ events[1].e = "stop_recording" /\ events[1].res = "recording"

\* C19: after stop_recording returns, all recording state is cleared: the
\* accumulator is empty, the is-recording flag is false and the stream
\* handle is cleared.
C19_RecordingStateCleared ==
    StoppedSession =>
        /\ recording_data = <<>>
        /\ is_recording = FALSE
        /\ stream = None

\* C19, the flag and the handle: after stop_recording returns the
\* is-recording flag is false and the stream handle is cleared.
C19_FlagAndHandleCleared ==
    StoppedSession =>
        /\ is_recording = FALSE
        /\ stream = None

C19_Witness ==
    /\ StoppedSession
    /\ recording_data # <<>>
    /\ returned.audio # <<>>
    /\ ~is_recording /\ stream = None

\* C20: play_click starts a standalone preview playback if and only if the
\* engine is not Recording (its is-recording flag is clear) at the time of
\* the call; while Recording it only arms the click and makes no host call.
\* A preview that fails raises nothing to the caller, and the click the call
\* selected remains armed, from its first sample.
C20_PreviewIffNotRecording ==
    HasEv("arm") =>
        /\ Len(ArmEv) = 1 /\ events[1].e = "arm"
        /\ HasEv("sd.play") <=> ~is_recording
        /\ is_recording => Len(events) = 1
        /\ ~is_recording => Len(events) = 2 /\ events[2].e = "sd.play"
        /\ ~HasEv("raise")
        /\ click_to_play # NoClick
        /\ click_to_play = (IF events[1].id = 2 THEN click_countin
                            ELSE IF events[1].id = 1 THEN click_accent
                            ELSE click_sample)
        /\ click_ptr = 0

C20_Witness ==
    /\ HasEv("arm") /\ ~is_recording
    /\ LastEv.e = "sd.play" /\ LastEv.res = "raised"
    /\ click_to_play = click_accent /\ click_ptr = 0

C20_WitnessRecording ==
    /\ HasEv("arm") /\ is_recording /\ Len(events) = 1
    /\ \E s \in hw : s.id = stream /\ s.kind = "duplex" /\ s.started

Zeros == <<[v |-> 0, n |-> SCOPE_BUFFER_SIZE]>>

\* C21: the scope buffer always holds exactly N = 2048 samples: it is all
\* zeros on a freshly constructed engine, with or without a saved
\* configuration, and it holds N samples in every state reached through
\* monitoring and duplex callbacks with batches smaller than, equal to or
\* larger than N, the state between the two scope writes included.
C21_ScopeBufferLength ==
    /\ \A cfg \in Configs : LoadConfig(Constructed, cfg).scope_buffer = Zeros
    /\ SumN(scope_buffer) = SCOPE_BUFFER_SIZE
    /\ \A i \in 1..Len(scope_buffer) : scope_buffer[i].n > 0

C21_Witness ==
    /\ events # <<>>
    /\ LastEv.e = "monitor_callback" /\ LastEv.res = "end"
    /\ LastEv.ch > SCOPE_BUFFER_SIZE
    /\ scope_buffer # Zeros

C21_WitnessSmaller ==
    /\ events # <<>>
    /\ LastEv.e = "monitor_callback" /\ LastEv.res = "end"
    /\ LastEv.ch < SCOPE_BUFFER_SIZE
    /\ Len(scope_buffer) = 2

C21_WitnessDuplex ==
    /\ events # <<>>
    /\ LastEv.e = "duplex_callback"
    /\ Len(scope_buffer) = 2

LevelReads == SelectSeq(events, LAMBDA ev : ev.e = "get_input_level")

\* C22: get_input_level always returns a value in [0, 1] (0..100 in
\* hundredths); when a step that ran stop_monitoring has returned the level
\* is 0, and from then on it stays 0 until a monitoring callback completes:
\* no other step changes it to a non-zero value.
C22_LevelInRange ==
    /\ [](/\ current_level \in 0..100
          /\ \A i \in 1..Len(LevelReads) :
                LevelReads[i].sr \in 0..100 /\ LevelReads[i].sr = current_level
          /\ HasEv("stop_monitoring") => current_level = 0)
    /\ [][current_level' # current_level =>
             \/ current_level' = 0
             \/ /\ events' # <<>>
                /\ events'[Len(events')].e = "monitor_callback"
                /\ events'[Len(events')].res = "end"]_vars

C22_Witness ==
    /\ events # <<>> /\ LastEv.e = "get_input_level"
    /\ LastEv.sr = 100
    /\ is_monitoring

C22_WitnessStopped ==
    /\ events # <<>> /\ LastEv.e = "get_input_level"
    /\ LastEv.sr = 0
    /\ ~is_monitoring /\ monitoring_stream = None
    /\ scope_buffer # Zeros

PollStep == events' # <<>> /\ events'[Len(events')].e = "get_scope_data"

\* C28: a poll of the scope buffer running concurrently with a capture
\* callback never observes a partially written buffer: the snapshot equals
\* the buffer as it was after the last completed callback write, never the
\* rolled array the batch has not been written into yet; and a snapshot
\* already handed out is not changed by later writes.
C28_SnapshotIsComplete ==
    /\ [](HasEv("get_scope_data") =>
             snapshot.data = (IF cb.pc = "rolled" THEN cb.before ELSE scope_buffer))
    /\ [][(snapshot.held /\ ~PollStep) => snapshot'.data = snapshot.data]_vars

\* C28, the poll between callbacks: a snapshot taken while no callback is in
\* flight is the completely written buffer, N samples long.
C28_SnapshotBetweenCallbacks ==
    (HasEv("get_scope_data") /\ cb.pc = "idle") =>
        /\ snapshot.held
        /\ snapshot.data = scope_buffer
        /\ SumN(snapshot.data) = SCOPE_BUFFER_SIZE

C28_Witness ==
    /\ HasEv("get_scope_data") /\ cb.pc = "idle"
    /\ Len(snapshot.data) = 2

C28_TornSnapshot ==
    /\ HasEv("get_scope_data") /\ cb.pc = "rolled"
    /\ snapshot.data = scope_buffer
    /\ snapshot.data # cb.before
    /\ snapshot.data # WriteTail(scope_buffer, cb.v, cb.frames)

OverwriteStep == events' # <<>> /\ events'[Len(events')].e = "host_overwrite"

\* C30: what the engine retains after a capture callback has returned is a
\* copy of the delivered input: when the host then overwrites the buffer it
\* delivered, neither the accumulator nor the scope buffer changes, whatever
\* the batch size was.
C30_RetainedDataIsCopied ==
    [][OverwriteStep =>
          /\ recording_data' = recording_data
          /\ scope_buffer' = scope_buffer]_vars

\* C30, the accumulator and batches shorter than N: the accumulator never
\* changes when the host overwrites its buffer, and the scope buffer does
\* not change unless its last write was a batch of N samples or more.
C30_ChunksAndShortBatchesCopied ==
    [][OverwriteStep =>
          /\ recording_data' = recording_data
          /\ ~scope_view => scope_buffer' = scope_buffer]_vars

C30_Witness ==
    /\ events # <<>> /\ LastEv.e = "host_overwrite"
    /\ recording_data # <<>>
    /\ ~scope_view

\* The full name the host gives now to the device at index i, from 0.
FullNameAt(i) == catalog[i + 1].name \o " (" \o HostApis[catalog[i + 1].hostapi + 1] \o ")"

\* The indices the devices called name have now.
IndicesOf(name) == {i \in 0..(Len(catalog) - 1) : FullNameAt(i) = name}

QueryRaised == \E i \in 1..Len(events) : events[i].e = "query_devices" /\ events[i].res = "raised"

Negotiated == HasEv("open_input") \/ HasEv("open_duplex")

\* C23: device selection persists by name. save_config stores the full
\* names the selected indices have in the catalog and the rate the user
\* chose, which no negotiation changes; load_config on a newly started
\* engine sets each device to an index that the stored name has in the
\* catalog as enumerated now, and to no device when the name is not in it.
C23_PersistsByName ==
    /\ []((events # <<>> /\ LastEv.e = "save_config" /\ ~QueryRaised) =>
             /\ db.present
             /\ db.sample_rate = sample_rate
             /\ db.input_device_name =
                    (IF input_device \in 0..(Len(catalog) - 1)
                     THEN FullNameAt(input_device) ELSE "")
             /\ db.output_device_name =
                    (IF output_device \in 0..(Len(catalog) - 1)
                     THEN FullNameAt(output_device) ELSE ""))
    /\ []((events # <<>> /\ LastEv.e = "load_config" /\ LastEv.res = "loaded"
           /\ ~QueryRaised) =>
             /\ sample_rate = db.sample_rate /\ active_sr = db.sample_rate
             /\ IF IndicesOf(db.input_device_name) = {}
                THEN input_device = NoDevice
                ELSE input_device \in IndicesOf(db.input_device_name)
             /\ IF IndicesOf(db.output_device_name) = {}
                THEN output_device = NoDevice
                ELSE output_device \in IndicesOf(db.output_device_name))
    /\ [][(Negotiated)' => sample_rate' = sample_rate]_vars

\* A selection made as input 1 and output 0 comes back as input 0 and
\* output 1 after the devices changed places.
C23_Witness ==
    /\ events # <<>> /\ LastEv.e = "load_config" /\ LastEv.res = "loaded"
    /\ ~QueryRaised
    /\ input_device = 0 /\ output_device = 1
    /\ FullNameAt(0) = "Microphone (MME)" /\ FullNameAt(1) = "UMC204HD (ASIO)"

C23_WitnessAbsent ==
    /\ events # <<>> /\ LastEv.e = "load_config" /\ LastEv.res = "loaded"
    /\ ~QueryRaised
    /\ db.input_device_name = "Microphone (MME)"
    /\ catalog = <<UmcAsio, BrokenDevice>> \/ catalog = <<>>
    /\ input_device = NoDevice

C23_WitnessIntendedRate ==
    /\ events # <<>> /\ LastEv.e = "save_config"
    /\ db.sample_rate = 44100 /\ active_sr = 48000
    /\ is_monitoring

IsVirtual(name) ==
    \E i \in 1..Len(name) : \E j \in i..Len(name) :
        SubSeq(name, i, j) \in {"Streaming", "Primary", "Asignador"}

\* C24: get_device_list never raises. When the host query or the description
\* of one device fails the list is empty, so no failing device is in it;
\* otherwise every device of the catalog is listed at its index, and a
\* device whose name carries a virtual marker is listed with priority 0.
C24_DeviceListNeverRaises ==
    result.op = "get_device_list" =>
        /\ ~HasEv("raise")
        /\ \A k \in 1..Len(result.val) :
               /\ result.val[k].index \in 0..(Len(catalog) - 1)
               /\ ~catalog[result.val[k].index + 1].bad
               /\ result.val[k].name = catalog[result.val[k].index + 1].name
        /\ QueryRaised => result.val = <<>>
        /\ ~QueryRaised =>
               /\ Len(result.val) = Len(catalog)
               /\ \A i \in 1..Len(catalog) :
                      /\ result.val[i].index = i - 1
                      /\ result.val[i].priority
                             = (IF IsVirtual(catalog[i].name) THEN 0 ELSE 1)

\* A list that keeps the primary capture driver, flagged low priority.
C24_Witness ==
    /\ result.op = "get_device_list"
    /\ Len(result.val) = 3
    /\ result.val[1].name = "Primary Sound Capture Driver"
    /\ result.val[1].priority = 0
    /\ result.val[2].priority = 1

\* One device cannot be described: the list is empty.
C24_WitnessFailingDevice ==
    /\ result.op = "get_device_list"
    /\ \E i \in 1..Len(catalog) : catalog[i].bad
    /\ QueryRaised
    /\ result.val = <<>>

\* The professional keywords found in a name.
KeywordsIn(name) ==
    {k \in 1..Len(PRO_DEVICE_KEYWORDS) : Contains(name, PRO_DEVICE_KEYWORDS[k])}

ApisIn(api) ==
    {k \in 1..Len(API_PRIORITY) : Contains(api, API_PRIORITY[k].key)}

RECURSIVE SumPoints(_)
SumPoints(ks) ==
    IF ks = {} THEN 0
    ELSE LET k == CHOOSE x \in ks : TRUE
         IN API_PRIORITY[k].points + SumPoints(ks \ {k})

ExpectedScore(d) ==
    SumPoints(ApisIn(d.api)) + 30 * Cardinality(KeywordsIn(d.name))
        + (IF d.inputs >= 2 THEN 10 ELSE 0)

\* d2 is d with one more professional keyword in its name.
OneMoreKeyword(d, d2) ==
    /\ d2.api = d.api /\ d2.inputs = d.inputs /\ d2.outputs = d.outputs
    /\ KeywordsIn(d.name) \subseteq KeywordsIn(d2.name)
    /\ Cardinality(KeywordsIn(d2.name)) = Cardinality(KeywordsIn(d.name)) + 1

\* C25: DeviceScorer.score returns the sum of the weights of the host APIs
\* found in the api name, 30 for each professional keyword found in the
\* name and 10 when there are two input channels or more; a descriptor that
\* differs only by one more keyword in its name scores strictly more.
C25_ScoreIsMonotonicSum ==
    result.op = "score" =>
        /\ result.val.score = ExpectedScore(result.val.info)
        /\ \A d2 \in Descriptors :
               OneMoreKeyword(result.val.info, d2) => Score(d2) > result.val.score
        /\ \A d0 \in Descriptors :
               OneMoreKeyword(d0, result.val.info) => Score(d0) < result.val.score

\* A name with two keywords, scored on an ASIO host with two inputs, and a
\* descriptor with one keyword fewer to compare it with.
C25_Witness ==
    /\ result.op = "score"
    /\ result.val.info.name = "UMC Focusrite Microphone"
    /\ result.val.info.api = "ASIO" /\ result.val.info.inputs = 2
    /\ result.val.score = 170
    /\ \E d0 \in Descriptors : OneMoreKeyword(d0, result.val.info)

\* C29: whatever is interleaved between a successful start_recording and
\* stop_recording, the engine holds the handle of every open duplex stream,
\* and when stop_recording returns from a Recording engine no duplex stream
\* is left open.
C29_DuplexStreamReleased ==
    /\ \A s \in hw : s.kind = "duplex" => s.id = stream
    /\ StoppedSession => \A s \in hw : s.kind # "duplex"

\* C29, for the handle stop_recording finds: the stream that the handle
\* names on entry is stopped and closed when stop_recording returns.
C29_HeldStreamReleased ==
    (StoppedSession /\ events[1].id # None) =>
        /\ HasEv("stop") /\ HasEv("close")
        /\ \A s \in hw : s.id # events[1].id

\* stop_recording found the duplex stream in the handle and released it,
\* after a click was armed during the session.
C29_Witness ==
    /\ StoppedSession /\ events[1].id # None
    /\ HasEv("close")
    /\ \A s \in hw : s.kind # "duplex"
    /\ click_to_play # NoClick

\* stop_recording returned and the duplex stream is still open, with no
\* handle left in the engine.
C29_LostDuplexStream ==
    /\ StoppedSession
    /\ \E s \in hw : s.kind = "duplex" /\ s.id # stream
    /\ stream = None

\* The value at position i (from 1) of an array given as runs of patterns.
RECURSIVE ValueAt(_, _)
ValueAt(runs, i) ==
    LET w == Len(Head(runs).v) * Head(runs).n
    IN IF i <= w THEN Head(runs).v[((i - 1) % Len(Head(runs).v)) + 1]
       ELSE ValueAt(Tail(runs), i - w)

\* |a/100 - p/32767| <= 1/32767
WithinQuantisation(a, p) ==
    /\ a * 32767 - p * 100 <= 100
    /\ p * 100 - a * 32767 <= 100

RoundTrip(data, loaded) ==
    /\ Count(loaded.audio) = Count(data.runs)
    /\ \A i \in 1..Count(data.runs) :
           WithinQuantisation(ValueAt(data.runs, i), ValueAt(loaded.audio, i))

SavedThenLoaded == result.op = "save_wav" /\ result'.op = "load_wav"

\* C26: an array written by save_wav and read back by load_wav has the same
\* number of samples, each within 1/32767 of the original, for every shape
\* stop_recording returns and every active channel count.
C26_PcmRoundTrip ==
    [][SavedThenLoaded => RoundTrip(result.val, result'.val)]_vars

\* C26, for a file written with one channel: the array read back has the
\* same number of samples, each within 1/32767 of the original, and the
\* frame rate is the active rate.
C26_RoundTripOneChannel ==
    [][(SavedThenLoaded /\ wavfile.nchannels = 1) =>
          /\ RoundTrip(result.val, result'.val)
          /\ result'.val.framerate = active_sr]_vars

\* Two blocks of one channel, written with one channel and read back.
C26_Witness ==
    /\ result.op = "load_wav"
    /\ wavfile.nchannels = 1 /\ wavfile.nframes = 2 * BLOCKSIZE
    /\ Count(result.val.audio) = 2 * BLOCKSIZE
    /\ result.val.audio = <<[v |-> <<-10813>>, n |-> BLOCKSIZE],
                            [v |-> <<16383>>, n |-> BLOCKSIZE]>>

\* One block of one channel written while two channels are active: half of
\* the samples come back.
C26_HalfTheSamples ==
    /\ result.op = "load_wav"
    /\ wavfile.nchannels = 2 /\ Len(wavfile.pcm) = 1 /\ Len(wavfile.pcm[1].v) = 1
    /\ Count(wavfile.pcm) = BLOCKSIZE
    /\ 2 * Count(result.val.audio) = BLOCKSIZE

\* C27: under any interleaving of play_click with the callback's click
\* consumption, the armed buffer and its cursor change together. Outside the
\* arming section the cursor is the one written for the armed buffer and
\* lies in [0, its length]; what the callback read is that buffer with that
\* cursor, and the slice it copies is non-negative and ends within the
\* buffer.
C27_ArmAndConsumeAtomic ==
    /\ click_lock # "ui" =>
           /\ cursor_of = click_to_play
           /\ click_ptr >= 0 /\ click_ptr <= click_to_play.n
    /\ audio.pc \in {"copy", "finish"} =>
           /\ click_lock = "audio"
           /\ audio.click = click_to_play /\ audio.click = cursor_of
           /\ audio.ptr >= 0 /\ audio.ptr <= audio.click.n
           /\ audio.to_copy >= 0
           /\ audio.ptr + audio.to_copy <= audio.click.n
    /\ ui.pc \in {"write_buffer", "write_ptr"} => click_lock = "ui"

\* The callback reads a click armed at 44100 Hz, from its start, while the
\* interface thread waits for the lock to arm another; the cursor of the
\* click replaced earlier had reached the block size.
C27_Witness ==
    /\ audio.pc = "copy" /\ audio.click.n < BLOCKSIZE /\ audio.ptr = 0
    /\ ui.pc = "acquire"
    /\ click_lock = "audio"

\* The interface thread is between its two writes: the new, shorter buffer
\* is in place with the cursor of the longer one, and the callback waits.
C27_WitnessMidArm ==
    /\ ui.pc = "write_ptr" /\ click_lock = "ui"
    /\ click_ptr = BLOCKSIZE /\ click_to_play.n < BLOCKSIZE
    /\ audio.pc = "acquire"

\* The value of channel c in frame i (from 1) of a batch.
RECURSIVE FrameAt(_, _, _)
FrameAt(runs, i, c) ==
    IF i <= Head(runs).n THEN Head(runs).v[c]
    ELSE FrameAt(Tail(runs), i - Head(runs).n, c)

BatchStep == result'.op \in {"monitor_batch", "duplex_batch"}

\* Every batch length and every half of one is a multiple of ScopeStride:
\* the positions compared are the first and the last of every stretch.
ScopeStride == BLOCKSIZE \div 2

ScopePositions ==
    {j * ScopeStride + 1 : j \in 0..(SCOPE_BUFFER_SIZE \div ScopeStride - 1)}
        \cup {j * ScopeStride : j \in 1..(SCOPE_BUFFER_SIZE \div ScopeStride)}

\* C31: when the monitoring or the duplex callback processes a batch of k
\* frames, the new scope buffer is, for k < N, the last N - k samples of the
\* old buffer followed by the first channel of the batch and, for k >= N,
\* the first channel of the last N frames of the batch.
C31_ScopeWriteRule ==
    [][BatchStep =>
          LET batch == result'.val.runs
              k == SumN(batch)
          IN /\ SumN(scope_buffer') = SCOPE_BUFFER_SIZE
             /\ \A r \in 1..Len(scope_buffer') :
                    scope_buffer'[r].n % ScopeStride = 0
             /\ \A i \in ScopePositions :
                    SampleAt(scope_buffer', i) =
                        IF k >= SCOPE_BUFFER_SIZE
                        THEN FrameAt(batch, k - SCOPE_BUFFER_SIZE + i, 1)
                        ELSE IF i <= SCOPE_BUFFER_SIZE - k
                        THEN SampleAt(scope_buffer, i + k)
                        ELSE FrameAt(batch, i - (SCOPE_BUFFER_SIZE - k), 1)]_vars

\* The monitoring callback took a batch of two buffers' length on two
\* channels: the buffer holds the first channel of the second half.
C31_Witness ==
    /\ result.op = "monitor_batch" /\ result.val.cols = 2
    /\ SumN(result.val.runs) = 2 * SCOPE_BUFFER_SIZE
    /\ result.val.runs[1].v = <<10, -10>> /\ result.val.runs[2].v = <<50, -50>>
    /\ scope_buffer = <<[v |-> 50, n |-> SCOPE_BUFFER_SIZE]>>

\* The duplex callback took a block on two channels after another: the
\* buffer ends with the first channel of both.
C31_WitnessDuplex ==
    /\ result.op = "duplex_batch" /\ result.val.cols = 2
    /\ Len(recording_data) = 2
    /\ Len(scope_buffer) = 4
    /\ scope_buffer[1].v = recording_data[1].runs[1].v[1]
    /\ scope_buffer[4] = [v |-> result.val.runs[2].v[1], n |-> BLOCKSIZE \div 2]

\* A batch shorter than the buffer arrives after others.
C31_WitnessShort ==
    /\ result.op = "monitor_batch"
    /\ SumN(result.val.runs) < SCOPE_BUFFER_SIZE
    /\ Len(scope_buffer) >= 4 /\ scope_buffer[1].v # 0

StatusStep ==
    /\ events' # <<>> /\ events'[1].e = "duplex_callback"
    /\ \E i \in 1..Len(events') : events'[i].e = "warning"

\* C32: a duplex callback called with a driver status does all its work.
\* While Recording the input block is appended to the accumulator; the scope
\* buffer is rolled by the block and ends with it; a pending click is written
\* to every output channel from the cursor and the cursor advances, and
\* without a pending click the output is silent.
C32_StatusIsNotFatal ==
    [][StatusStep =>
          LET k == events'[1].ch
          IN /\ is_recording =>
                    /\ Len(recording_data') = Len(recording_data) + 1
                    /\ SubSeq(recording_data', 1, Len(recording_data)) = recording_data
                    /\ recording_data'[Len(recording_data')]
                           = delivered'[Len(delivered')]
                    /\ recording_data'[Len(recording_data')].n = k
                    /\ SampleAt(scope_buffer', SCOPE_BUFFER_SIZE)
                           = recording_data'[Len(recording_data')].v
             /\ is_recording' = is_recording
             /\ SumN(scope_buffer') = SCOPE_BUFFER_SIZE
             /\ \A i \in {1, SCOPE_BUFFER_SIZE - k} :
                    SampleAt(scope_buffer', i) = SampleAt(scope_buffer, i + k)
             /\ \A i \in {SCOPE_BUFFER_SIZE - k + 1, SCOPE_BUFFER_SIZE} :
                    SampleAt(scope_buffer', i) = SampleAt(scope_buffer', SCOPE_BUFFER_SIZE)
             /\ IF click_to_play # NoClick
                THEN /\ \A c \in DOMAIN outdata' :
                            outdata'[c] = [click |-> click_to_play, lo |-> click_ptr,
                                           n |-> Min(k, click_to_play.n - click_ptr)]
                     /\ IF click_ptr + k >= click_to_play.n
                        THEN click_to_play' = NoClick /\ click_ptr' = 0
                        ELSE click_to_play' = click_to_play /\ click_ptr' = click_ptr + k
                ELSE outdata' = Silence /\ click_to_play' = NoClick]_vars

\* A callback with a status, while Recording and with a click pending:
\* the block was captured and the start of the click written.
C32_Witness ==
    /\ events # <<>> /\ events[1].e = "duplex_callback" /\ events[1].res = "armed"
    /\ HasEv("warning")
    /\ is_recording /\ Len(recording_data) = 2
    /\ outdata[0].n = BLOCKSIZE /\ click_ptr = BLOCKSIZE

\* ---- C33 ------------------------------------------------------------------
StopPcs ==
    {"mstop_lock", "mstop_release", "mstop_sleep", "mstop_unlock",
     "rstop_lock", "rstop_release", "rstop_sleep", "rstop_unlock"}

SleepPcs == {"mstop_sleep", "mstop_unlock", "rstop_sleep", "rstop_unlock"}

CallbackInFlight == audio.pc # "idle" \/ cb.pc # "idle"

\* C33: the audio thread never holds the stream lock, the click lock is held
\* by the interface thread only across the two arm assignments, and a
\* callback that reaches its lock while a stop holds the stream lock for
\* the cooldown can enter at once; so a stop that has begun always returns,
\* whatever callback is in flight.
C33_StopAlwaysReturns ==
    /\ [](/\ stream_lock # "audio"
          /\ (click_lock = "ui" => ui.pc \in {"write_buffer", "write_ptr"})
          /\ (click_lock = "audio" => audio.pc \in {"read", "copy", "finish"})
          /\ (stream_lock = "ui" => ui.pc \in StopPcs)
          /\ (ui.pc \in SleepPcs /\ audio.pc = "acquire" => CallbackCanEnter(Cur)))
    /\ ((ui.pc \in StopPcs) ~> (ui.pc = "idle"))

\* A stop holds the stream lock and waits for the callback in flight, which
\* is itself about to take the click lock.
C33_Witness ==
    /\ ui.pc = "rstop_release" /\ stream_lock = "ui"
    /\ audio.pc = "acquire" /\ audio.id = stream

\* A callback starts while the stop sleeps with the stream lock held.
C33_WitnessCooldown ==
    /\ ui.pc = "mstop_unlock" /\ stream_lock = "ui" /\ CallbackInFlight

\* ---- C34 ------------------------------------------------------------------
\* C34: whenever a negotiation has ended, every stream the host holds open
\* has been started: none is left from an attempt whose start() failed.
C34_NoFailedStreamLeftOpen == \A s \in hw : s.started

\* C34, for the duplex cascade alone: a duplex stream that was created and
\* failed to start is closed before the next candidate is tried.
C34_DuplexAttemptClosed ==
    /\ \A s \in hw : s.kind = "duplex" => s.started
    /\ \A i \in 1..Len(events) :
           events[i].e = "open_duplex" /\ events[i].res = "start_fail"
           => /\ i < Len(events)
              /\ events[i + 1].e = "close" /\ events[i + 1].id = events[i].id

\* A duplex negotiation in which a candidate failed to start and a later one
\* was opened.
C34_Witness ==
    /\ \E i \in 1..Len(events) :
           events[i].e = "open_duplex" /\ events[i].res = "start_fail"
    /\ LastEv.e = "open_duplex" /\ LastEv.res = "ok"

\* A monitoring negotiation that ended with a stream of a failed attempt
\* still open.
C34_LeftOpen ==
    /\ \E i \in 1..Len(events) :
           /\ events[i].e = "open_input" /\ events[i].res = "start_fail"
           /\ \E s \in hw : s.id = events[i].id /\ ~s.started /\ s.kind = "input"

\* ---- C35 ------------------------------------------------------------------
\* A step in which start_monitoring ran its negotiation and opened nothing:
\* the query raised, or every attempt failed.
MonitoringFailed ==
    /\ ScanEv' # <<>>
    /\ \A i \in 1..Len(events') :
           events'[i].e = "open_input" => events'[i].res # "ok"

\* C35, as stated: after a start_monitoring that failed the engine is Idle
\* (neither flag set, no handle, no stream held open by the host) and the
\* active rate, the active channel count and the click samples are those
\* from before the call.
C35_FailedMonitoringLeavesIdle ==
    [][MonitoringFailed =>
         /\ monitoring_stream' = None /\ ~is_monitoring'
         /\ ~is_recording' /\ hw' = {}
         /\ active_sr' = active_sr /\ active_channels' = active_channels
         /\ click_sample' = click_sample /\ click_accent' = click_accent
         /\ click_countin' = click_countin]_vars

\* C35, for the fields of the monitoring session: no monitoring handle, the
\* is-monitoring flag false, and rate, channel count and click samples
\* unchanged.
C35_FailedMonitoringKeepsConfig ==
    [][MonitoringFailed =>
         /\ monitoring_stream' = None /\ ~is_monitoring'
         /\ active_sr' = active_sr /\ active_channels' = active_channels
         /\ click_sample' = click_sample /\ click_accent' = click_accent
         /\ click_countin' = click_countin]_vars

\* Every candidate of a start_monitoring on a monitoring engine has failed.
C35_Witness ==
    /\ ScanEv # <<>> /\ ~HasEv("sd.stop")
    /\ Len(Attempts) >= 2
    /\ \A i \in 1..Len(Attempts) : Attempts[i].res # "ok"
    /\ HasEv("stop") /\ ~is_monitoring /\ monitoring_stream = None

\* The device query of a start_monitoring has failed.
C35_WitnessQuery ==
    /\ ScanEv # <<>> /\ ~HasEv("sd.stop")
    /\ \E i \in 1..Len(events) : events[i].e = "query" /\ events[i].res = "raised"
    /\ ~is_monitoring /\ monitoring_stream = None

\* ---- C36 ------------------------------------------------------------------
NoPairTwice ==
    \A i, j \in 1..Len(Attempts) :
        (Attempts[i].sr = Attempts[j].sr /\ Attempts[i].ch = Attempts[j].ch) => i = j

C36_WitnessStereoOnMono ==
    /\ ScanEv # <<>> /\ ScanEv[1].ch = 2
    /\ QueryEv # <<>> /\ QueryEv[1].ch = 1
    /\ Len(Attempts) >= 2 /\ NoPairTwice

\* The same pair attempted twice in a row.
C36_PairTwice ==
    /\ Len(Attempts) >= 2
    /\ Attempts[1].sr = Attempts[2].sr /\ Attempts[1].ch = 2 /\ Attempts[2].ch = 2

\* ---- C37 ------------------------------------------------------------------
ResetEv == SelectSeq(events, LAMBDA ev : ev.e = "click_reset")

\* C37: a start_recording that runs leaves no click armed and the cursor at
\* zero, and has cleared the click before its first attempt to open the
\* duplex stream; a click is armed only by play_click; and a callback
\* that finds no click armed emits silence. So what was armed before
\* start_recording is never written to the duplex output.
C37_ArmedClickNeverPlayed ==
    [][/\ (\E i \in 1..Len(events') : events'[i].e = "click_reset") =>
              /\ click_to_play' = NoClick /\ click_ptr' = 0
              /\ \A i, j \in 1..Len(events') :
                     (events'[i].e = "click_reset" /\ events'[j].e = "open_duplex")
                     => i < j
       /\ (click_to_play = NoClick /\ click_to_play' # NoClick) =>
              \E i \in 1..Len(events') : events'[i].e = "arm"
       /\ (events' # <<>> /\ events'[1].e = "duplex_callback"
           /\ click_to_play = NoClick) =>
              /\ outdata' = Silence
              /\ events'[1].res = "idle"]_vars

\* start_recording was called with a click armed, of which a part had been
\* emitted, and has opened the duplex stream.
C37_Witness ==
    /\ ResetEv # <<>> /\ ResetEv[1].res = "armed" /\ ResetEv[1].sr > 0
    /\ LastEv.e = "open_duplex" /\ LastEv.res = "ok"
    /\ is_recording /\ click_to_play = NoClick /\ click_ptr = 0

\* The first callback of a session has emitted silence.
C37_WitnessSilence ==
    /\ CallbackEv # <<>> /\ CallbackEv[1].res = "idle"
    /\ is_recording /\ Len(recording_data) = 1
    /\ outdata = Silence

\* ---- C38 ------------------------------------------------------------------
\* A step in which start_recording found the engine recording.
NoOpStep == events' # <<>> /\ events'[1].e = "start_recording"

\* C38: start_recording called while Recording changes nothing: the
\* accumulator, the duplex stream and its handle, the armed click and its
\* cursor, the active rate and the flags are as before, and the call stops no
\* monitoring, sleeps for no settle delay and attempts no open.
C38_StartWhileRecordingIsNoOp ==
    [][NoOpStep =>
          /\ is_recording /\ is_recording'
          /\ recording_data' = recording_data
          /\ stream' = stream /\ hw' = hw
          /\ click_to_play' = click_to_play /\ click_ptr' = click_ptr
          /\ active_sr' = active_sr /\ active_channels' = active_channels
          /\ monitoring_stream' = monitoring_stream
          /\ is_monitoring' = is_monitoring
          /\ Len(events') = 1]_vars

\* start_recording has been called on a recording engine that holds two
\* blocks and a partly emitted click.
C38_Witness ==
    /\ events # <<>> /\ events[1].e = "start_recording"
    /\ is_recording /\ Len(recording_data) = 2
    /\ click_to_play # NoClick /\ click_ptr = BLOCKSIZE
    /\ \E s \in hw : s.id = stream /\ s.kind = "duplex" /\ s.started
====
